---- MODULE Spec2Model ----
(***************************************************************************)
(* Model of kint's interprocedural integer range analysis (src/Range.cc):  *)
(* the RangePass fixpoint driver, the global range table, the per-block    *)
(* value range maps, the per-instruction transfer functions and the        *)
(* branch/switch refinement.  Ranges are llvm::ConstantRange values, i.e.  *)
(* half-open wrapping intervals [lo, hi) of a fixed bit width; the          *)
(* operators on them are written out as the library computes them.         *)
(***************************************************************************)
EXTENDS Integers, Sequences, FiniteSets, TLC

\* ------------------------------------------------------------------------
\* llvm::ConstantRange as used by Range.cc
\* ------------------------------------------------------------------------

\* number of machine words of an n-bit integer type
Pow2(n) == 2 ^ n

MaxOf(w) == Pow2(w) - 1

\* ConstantRange(L, U)
CR(w, lo, hi) == [w |-> w, lo |-> lo, hi |-> hi]

\* ConstantRange(BitWidth, true)
FullSet(w) == CR(w, MaxOf(w), MaxOf(w))

\* ConstantRange(BitWidth, false)
EmptySet(w) == CR(w, 0, 0)

\* ConstantRange(const APInt &V): [V, V+1)
Single(w, v) == CR(w, v % Pow2(w), (v + 1) % Pow2(w))

isFullSet(r) == r.lo = r.hi /\ r.lo = MaxOf(r.w)

isEmptySet(r) == r.lo = r.hi /\ r.lo = 0

isWrappedSet(r) == r.lo > r.hi

contains(r, v) ==
    IF r.lo = r.hi THEN isFullSet(r)
    ELSE IF ~isWrappedSet(r) THEN r.lo <= v /\ v < r.hi
    ELSE r.lo <= v \/ v < r.hi

\* the set of machine words a range denotes
Vals(r) == {v \in 0..MaxOf(r.w) : contains(r, v)}

getSetSize(r) ==
    IF isEmptySet(r) THEN 0 ELSE (r.hi - r.lo) % Pow2(r.w)

getUnsignedMax(r) ==
    IF isFullSet(r) \/ isWrappedSet(r) THEN MaxOf(r.w) ELSE (r.hi - 1) % Pow2(r.w)

getUnsignedMin(r) ==
    IF isFullSet(r) \/ (isWrappedSet(r) /\ r.hi # 0) THEN 0 ELSE r.lo

\* two's complement reading of a machine word
Signed(w, v) == IF v >= Pow2(w - 1) THEN v - Pow2(w) ELSE v

SignedMaxValue(w) == Pow2(w - 1) - 1

SignedMinValue(w) == Pow2(w - 1)

getSignedMax(r) ==
    LET um1 == (r.hi - 1) % Pow2(r.w) IN
    IF ~isWrappedSet(r)
    THEN IF Signed(r.w, r.lo) <= Signed(r.w, um1) THEN um1
         ELSE SignedMaxValue(r.w)
    ELSE IF (r.lo >= Pow2(r.w - 1)) = (r.hi >= Pow2(r.w - 1))
         THEN SignedMaxValue(r.w)
         ELSE um1

getSignedMin(r) ==
    LET um1 == (r.hi - 1) % Pow2(r.w) IN
    IF ~isWrappedSet(r)
    THEN IF Signed(r.w, r.lo) <= Signed(r.w, um1) THEN r.lo
         ELSE SignedMinValue(r.w)
    ELSE IF Signed(r.w, um1) < Signed(r.w, r.lo) /\ r.hi # SignedMinValue(r.w)
         THEN SignedMinValue(r.w)
         ELSE r.lo

\* ConstantRange::unionWith: the convex join of two wrapping intervals
RECURSIVE unionWith(_, _)
unionWith(a, b) ==
    IF isFullSet(a) \/ isEmptySet(b) THEN a
    ELSE IF isFullSet(b) \/ isEmptySet(a) THEN b
    ELSE IF ~isWrappedSet(a) /\ isWrappedSet(b) THEN unionWith(b, a)
    ELSE IF ~isWrappedSet(a) /\ ~isWrappedSet(b) THEN
        IF b.hi < a.lo \/ a.hi < b.lo
        THEN \* disjoint: bridge the smaller gap
             LET d1 == (b.lo - a.hi) % Pow2(a.w)
                 d2 == (a.lo - b.hi) % Pow2(a.w)
             IN IF d1 < d2 THEN CR(a.w, a.lo, b.hi) ELSE CR(a.w, b.lo, a.hi)
        ELSE LET L == IF b.lo < a.lo THEN b.lo ELSE a.lo
                 U == IF (b.hi - 1) % Pow2(a.w) > (a.hi - 1) % Pow2(a.w)
                      THEN b.hi ELSE a.hi
             IN IF L = 0 /\ U = 0 THEN FullSet(a.w) ELSE CR(a.w, L, U)
    ELSE IF ~isWrappedSet(b) THEN
        IF b.hi <= a.hi \/ b.lo >= a.lo THEN a
        ELSE IF b.lo <= a.hi /\ a.lo <= b.hi THEN FullSet(a.w)
        ELSE IF a.hi <= b.lo /\ b.hi <= a.lo
        THEN LET d1 == (b.lo - a.hi) % Pow2(a.w)
                 d2 == (a.lo - b.hi) % Pow2(a.w)
             IN IF d1 < d2 THEN CR(a.w, a.lo, b.hi) ELSE CR(a.w, b.lo, a.hi)
        ELSE IF a.hi < b.lo /\ a.lo < b.hi THEN CR(a.w, b.lo, a.hi)
        ELSE CR(a.w, a.lo, b.hi)
    ELSE \* both wrapped
        IF b.lo <= a.hi \/ a.lo <= b.hi THEN FullSet(a.w)
        ELSE CR(a.w, IF b.lo < a.lo THEN b.lo ELSE a.lo,
                     IF b.hi > a.hi THEN b.hi ELSE a.hi)

\* ConstantRange::intersectWith
RECURSIVE intersectWith(_, _)
intersectWith(a, b) ==
    IF isEmptySet(a) \/ isFullSet(b) THEN a
    ELSE IF isEmptySet(b) \/ isFullSet(a) THEN b
    ELSE IF ~isWrappedSet(a) /\ isWrappedSet(b) THEN intersectWith(b, a)
    ELSE IF ~isWrappedSet(a) /\ ~isWrappedSet(b) THEN
        IF a.lo < b.lo
        THEN IF a.hi <= b.lo THEN EmptySet(a.w)
             ELSE IF a.hi < b.hi THEN CR(a.w, b.lo, a.hi)
             ELSE b
        ELSE IF a.hi < b.hi THEN a
             ELSE IF a.lo < b.hi THEN CR(a.w, a.lo, b.hi)
             ELSE EmptySet(a.w)
    ELSE IF isWrappedSet(a) /\ ~isWrappedSet(b) THEN
        IF b.lo < a.hi
        THEN IF b.hi < a.hi THEN b
             ELSE IF b.hi < a.lo THEN CR(a.w, b.lo, a.hi)
             ELSE IF getSetSize(a) < getSetSize(b) THEN a ELSE b
        ELSE IF b.lo < a.lo
        THEN IF b.hi <= a.lo THEN EmptySet(a.w)
             ELSE CR(a.w, a.lo, b.hi)
        ELSE b
    ELSE \* both wrapped
        IF b.hi < a.hi
        THEN IF b.lo < a.hi
             THEN IF getSetSize(a) < getSetSize(b) THEN a ELSE b
             ELSE IF b.lo < a.lo THEN CR(a.w, a.lo, b.hi)
             ELSE b
        ELSE IF b.hi < a.lo
        THEN IF b.lo < a.lo THEN a ELSE CR(a.w, b.lo, a.hi)
        ELSE IF getSetSize(a) < getSetSize(b) THEN a ELSE b

\* ConstantRange::inverse
inverse(r) ==
    IF isFullSet(r) THEN EmptySet(r.w)
    ELSE IF isEmptySet(r) THEN FullSet(r.w)
    ELSE CR(r.w, r.hi, r.lo)

\* number of bits needed to write n
RECURSIVE ActiveBits(_)
ActiveBits(n) == IF n = 0 THEN 0 ELSE 1 + ActiveBits(n \div 2)

\* ConstantRange::truncate
truncate(r, dst) ==
    IF isFullSet(r) \/ ActiveBits(getSetSize(r)) > dst THEN FullSet(dst)
    ELSE CR(dst, r.lo % Pow2(dst), r.hi % Pow2(dst))

\* ConstantRange::zeroExtend
zeroExtend(r, dst) ==
    IF isEmptySet(r) THEN EmptySet(dst)
    ELSE IF isFullSet(r) \/ isWrappedSet(r)
    THEN CR(dst, IF r.hi = 0 THEN r.lo ELSE 0, Pow2(r.w))
    ELSE CR(dst, r.lo, r.hi)

\* ConstantRange::zextOrTrunc
zextOrTrunc(r, dst) ==
    IF r.w > dst THEN truncate(r, dst)
    ELSE IF r.w < dst THEN zeroExtend(r, dst)
    ELSE r

\* APInt::sext of a machine word from width w to width dst
SExtWord(w, dst, v) == IF v >= Pow2(w - 1) THEN v + Pow2(dst) - Pow2(w) ELSE v

isSignWrappedSet(r) ==
    contains(r, SignedMaxValue(r.w)) /\ contains(r, SignedMinValue(r.w))

\* ConstantRange::signExtend
signExtend(r, dst) ==
    IF isEmptySet(r) THEN EmptySet(dst)
    ELSE IF r.hi = SignedMinValue(r.w) /\ r.w < dst
    THEN CR(dst, SExtWord(r.w, dst, r.lo), r.hi)
    ELSE IF isFullSet(r) \/ isSignWrappedSet(r)
    THEN CR(dst, Pow2(dst) - Pow2(r.w - 1), Pow2(r.w - 1))
    ELSE CR(dst, SExtWord(r.w, dst, r.lo), SExtWord(r.w, dst, r.hi))

\* ConstantRange::add
add(a, b) ==
    IF isEmptySet(a) \/ isEmptySet(b) THEN EmptySet(a.w)
    ELSE IF isFullSet(a) \/ isFullSet(b) THEN FullSet(a.w)
    ELSE LET nl == (a.lo + b.lo) % Pow2(a.w)
             nu == (a.hi + b.hi - 1) % Pow2(a.w)
             x  == CR(a.w, nl, nu)
         IN IF nl = nu THEN FullSet(a.w)
            ELSE IF getSetSize(x) < getSetSize(a) \/ getSetSize(x) < getSetSize(b)
            THEN FullSet(a.w)
            ELSE x

\* ConstantRange::sub
sub(a, b) ==
    IF isEmptySet(a) \/ isEmptySet(b) THEN EmptySet(a.w)
    ELSE IF isFullSet(a) \/ isFullSet(b) THEN FullSet(a.w)
    ELSE LET nl == (a.lo - b.hi + 1) % Pow2(a.w)
             nu == (a.hi - b.lo) % Pow2(a.w)
             x  == CR(a.w, nl, nu)
         IN IF nl = nu THEN FullSet(a.w)
            ELSE IF getSetSize(x) < getSetSize(a) \/ getSetSize(x) < getSetSize(b)
            THEN FullSet(a.w)
            ELSE x

\* ConstantRange::udiv
udiv(a, b) ==
    IF isEmptySet(a) \/ isEmptySet(b) \/ getUnsignedMax(b) = 0 THEN EmptySet(a.w)
    ELSE IF isFullSet(b) THEN FullSet(a.w)
    ELSE LET lower == getUnsignedMin(a) \div getUnsignedMax(b)
             umin0 == getUnsignedMin(b)
             umin  == IF umin0 = 0
                      THEN (IF b.hi = 1 THEN b.lo ELSE 1)
                      ELSE umin0
             upper == ((getUnsignedMax(a) \div umin) + 1) % Pow2(a.w)
         IN IF lower = upper THEN FullSet(a.w) ELSE CR(a.w, lower, upper)

\* ConstantRange::binaryAnd
binaryAnd(a, b) ==
    IF isEmptySet(a) \/ isEmptySet(b) THEN EmptySet(a.w)
    ELSE LET m == IF getUnsignedMax(b) < getUnsignedMax(a)
                  THEN getUnsignedMax(b) ELSE getUnsignedMax(a)
         IN IF m = MaxOf(a.w) THEN FullSet(a.w) ELSE CR(a.w, 0, m + 1)

\* ConstantRange::binaryOr
binaryOr(a, b) ==
    IF isEmptySet(a) \/ isEmptySet(b) THEN EmptySet(a.w)
    ELSE LET m == IF getUnsignedMin(b) > getUnsignedMin(a)
                  THEN getUnsignedMin(b) ELSE getUnsignedMin(a)
         IN IF m = 0 THEN FullSet(a.w) ELSE CR(a.w, m, 0)

\* ConstantRange::multiply
multiply(a, b) ==
    IF isEmptySet(a) \/ isEmptySet(b) THEN EmptySet(a.w)
    ELSE IF isFullSet(a) \/ isFullSet(b) THEN FullSet(a.w)
    ELSE truncate(CR(2 * a.w, getUnsignedMin(a) * getUnsignedMin(b),
                     getUnsignedMax(a) * getUnsignedMax(b) + 1), a.w)

\* APInt::shl and APInt::lshr by an APInt amount
ShlWord(w, v, n) == IF n >= w THEN 0 ELSE (v * Pow2(n)) % Pow2(w)

LShrWord(w, v, n) == IF n >= w THEN 0 ELSE v \div Pow2(n)

\* ConstantRange::shl
shl(a, b) ==
    IF isEmptySet(a) \/ isEmptySet(b) THEN EmptySet(a.w)
    ELSE LET min == ShlWord(a.w, getUnsignedMin(a), getUnsignedMin(b))
             max == ShlWord(a.w, getUnsignedMax(a), getUnsignedMax(b))
             Zeros == a.w - ActiveBits(getUnsignedMax(a))
         IN IF Zeros > getUnsignedMax(b) THEN CR(a.w, min, (max + 1) % Pow2(a.w))
            ELSE FullSet(a.w)

\* ConstantRange::lshr
lshr(a, b) ==
    IF isEmptySet(a) \/ isEmptySet(b) THEN EmptySet(a.w)
    ELSE LET max == LShrWord(a.w, getUnsignedMax(a), getUnsignedMin(b))
             min == LShrWord(a.w, getUnsignedMin(a), getUnsignedMax(b))
         IN IF min = (max + 1) % Pow2(a.w) THEN FullSet(a.w)
            ELSE CR(a.w, min, (max + 1) % Pow2(a.w))

\* CmpInst::getSwappedPredicate
SwappedPredicate(p) ==
    CASE p = "ult" -> "ugt" [] p = "ugt" -> "ult"
      [] p = "ule" -> "uge" [] p = "uge" -> "ule"
      [] p = "slt" -> "sgt" [] p = "sgt" -> "slt"
      [] p = "sle" -> "sge" [] p = "sge" -> "sle"
      [] OTHER -> p

\* CmpInst::getInversePredicate
InversePredicate(p) ==
    CASE p = "ult" -> "uge" [] p = "uge" -> "ult"
      [] p = "ugt" -> "ule" [] p = "ule" -> "ugt"
      [] p = "slt" -> "sge" [] p = "sge" -> "slt"
      [] p = "sgt" -> "sle" [] p = "sle" -> "sgt"
      [] p = "eq" -> "ne"
      [] OTHER -> "eq"

\* the comparison itself, on machine words of width w
CmpHolds(p, w, x, y) ==
    CASE p = "eq"  -> x = y
      [] p = "ne"  -> x # y
      [] p = "ult" -> x < y
      [] p = "ule" -> x <= y
      [] p = "ugt" -> x > y
      [] p = "uge" -> x >= y
      [] p = "slt" -> Signed(w, x) < Signed(w, y)
      [] p = "sle" -> Signed(w, x) <= Signed(w, y)
      [] p = "sgt" -> Signed(w, x) > Signed(w, y)
      [] OTHER     -> Signed(w, x) >= Signed(w, y)

\* ConstantRange::makeICmpRegion(Pred, CR): the values x with x Pred y for
\* some y in CR
makeICmpRegion(p, r) ==
    IF isEmptySet(r) THEN r
    ELSE CASE p = "eq" -> r
      [] p = "ne"  -> IF (r.lo + 1) % Pow2(r.w) = r.hi
                      THEN CR(r.w, r.hi, r.lo) ELSE FullSet(r.w)
      [] p = "ult" -> IF getUnsignedMax(r) = 0 THEN EmptySet(r.w)
                      ELSE CR(r.w, 0, getUnsignedMax(r))
      [] p = "slt" -> IF getSignedMax(r) = SignedMinValue(r.w) THEN EmptySet(r.w)
                      ELSE CR(r.w, SignedMinValue(r.w), getSignedMax(r))
      [] p = "ule" -> IF getUnsignedMax(r) = MaxOf(r.w) THEN FullSet(r.w)
                      ELSE CR(r.w, 0, getUnsignedMax(r) + 1)
      [] p = "sle" -> IF getSignedMax(r) = SignedMaxValue(r.w) THEN FullSet(r.w)
                      ELSE CR(r.w, SignedMinValue(r.w), getSignedMax(r) + 1)
      [] p = "ugt" -> IF getUnsignedMin(r) = MaxOf(r.w) THEN EmptySet(r.w)
                      ELSE CR(r.w, getUnsignedMin(r) + 1, 0)
      [] p = "sgt" -> IF getSignedMin(r) = SignedMaxValue(r.w) THEN EmptySet(r.w)
                      ELSE CR(r.w, getSignedMin(r) + 1, SignedMinValue(r.w))
      [] p = "uge" -> IF getUnsignedMin(r) = 0 THEN FullSet(r.w)
                      ELSE CR(r.w, getUnsignedMin(r), 0)
      [] OTHER     -> IF getSignedMin(r) = SignedMinValue(r.w) THEN FullSet(r.w)
                      ELSE CR(r.w, getSignedMin(r), SignedMinValue(r.w))

\* ------------------------------------------------------------------------
\* The analysed module: values, instructions, blocks, functions
\* ------------------------------------------------------------------------

\* An llvm::Value as the pass sees it.  k is the kind ("const" ConstantInt,
\* "arg" Argument, "load" LoadInst, "call" CallInst, "inst" any other
\* integer instruction, "ptr" a pointer to integer), w the bit width of its
\* integer type (of the pointee for "ptr"), v the constant's value, sid the
\* answer of getValueId / getRetId(CallInst) for it ("" when it has none),
\* callees the entry Ctx->Callees[CI], resolved whether that entry exists,
\* asm whether the call is inline assembly.
Value(k, n, w, v, sid) ==
    [k |-> k, n |-> n, w |-> w, v |-> v, sid |-> sid,
     callees |-> <<>>, resolved |-> FALSE, asm |-> FALSE]

NoValue == Value("none", "", 0, 0, "")

ConstInt(w, v) == Value("const", "", w, v, "")

Arg(n, w, sid) == Value("arg", n, w, 0, sid)

Tmp(n, w) == Value("inst", n, w, 0, "")

Ld(n, w, sid) == Value("load", n, w, 0, sid)

Ptr(n, w) == Value("ptr", n, w, 0, "")

CallV(n, w, sid, callees, resolved, asm) ==
    [k |-> "call", n |-> n, w |-> w, v |-> 0, sid |-> sid,
     callees |-> callees, resolved |-> resolved, asm |-> asm]

\* An llvm::Instruction.  res is the instruction itself as a value (w = 0
\* when its type is not an integer type).
NoInst ==
    [op |-> "", res |-> NoValue, x |-> NoValue, y |-> NoValue, z |-> NoValue,
     code |-> "", sid |-> "", inc |-> <<>>, args |-> <<>>, cases |-> <<>>,
     succs |-> <<>>, cond |-> FALSE, isICmp |-> FALSE, icmpParent |-> ""]

BinOp(res, code, x, y) ==
    [NoInst EXCEPT !.op = "binop", !.res = res, !.code = code, !.x = x, !.y = y]

Cast(res, code, x) ==
    [NoInst EXCEPT !.op = "cast", !.res = res, !.code = code, !.x = x]

Select(res, x, y) ==
    [NoInst EXCEPT !.op = "select", !.res = res, !.x = x, !.y = y]

\* inc: the incoming (block, value) pairs
Phi(res, inc) == [NoInst EXCEPT !.op = "phi", !.res = res, !.inc = inc]

Load(res) == [NoInst EXCEPT !.op = "load", !.res = res]

\* a load through the pointer operand p
LoadFrom(res, p) == [Load(res) EXCEPT !.y = p]

\* sid = getValueId(SI), x the stored value, y the pointer operand
Store(sid, x, y) ==
    [NoInst EXCEPT !.op = "store", !.sid = sid, !.x = x, !.y = y]

Call(res, args) == [NoInst EXCEPT !.op = "call", !.res = res, !.args = args]

\* x the returned value (NoValue for ret void)
Ret(x) == [NoInst EXCEPT !.op = "ret", !.x = x]

ICmp(res, code, x, y) ==
    [NoInst EXCEPT !.op = "icmp", !.res = res, !.code = code, !.x = x, !.y = y]

\* an integer instruction of a kind updateRangeFor has no visitor for
Other(res) == [NoInst EXCEPT !.op = "other", !.res = res]

Br(succ) == [NoInst EXCEPT !.op = "br", !.succs = <<succ>>]

\* conditional branch on the ICmpInst (code, x, y) that lives in block parent
CondBr(parent, code, x, y, t, f) ==
    [NoInst EXCEPT !.op = "br", !.cond = TRUE, !.isICmp = TRUE,
                   !.icmpParent = parent, !.code = code, !.x = x, !.y = y,
                   !.succs = <<t, f>>]

\* conditional branch on a condition that is no ICmpInst
CondBrOther(t, f) ==
    [NoInst EXCEPT !.op = "br", !.cond = TRUE, !.succs = <<t, f>>]

\* switch on x; succs[1] is the default destination, cases the (value,
\* successor) pairs in case order
Switch(x, dflt, cases) ==
    [NoInst EXCEPT !.op = "switch", !.x = x, !.succs = <<dflt>>, !.cases = cases]

Block(name, preds, insts) == [name |-> name, preds |-> preds, insts |-> insts]

\* A function: blocks in layout order (empty for a declaration), retId =
\* getRetId(F), argIds[j] = getArgId(F, j-1), vararg = F->isVarArg(),
\* dotted = the name contains '.'.
Function(name, retId, argIds, vararg, dotted, blocks) ==
    [name |-> name, retId |-> retId, argIds |-> argIds, vararg |-> vararg,
     dotted |-> dotted, blocks |-> blocks]

\* A constant initializer: k = "int" (ConstantInt of width w, value v),
\* "struct" (ConstantStruct; named = the type has a name that is not
\* struct.anon*, elems[i] = [ty, c, sid] with ty the field's type kind, c
\* the operand and sid = getStructId(ST, M, i)), "array" (ConstantArray; ty
\* the element type kind, elems the operands) or "other".
CInt(w, v) == [k |-> "int", w |-> w, v |-> v, named |-> FALSE, ty |-> "", elems |-> <<>>]

CStruct(named, elems) ==
    [k |-> "struct", w |-> 0, v |-> 0, named |-> named, ty |-> "", elems |-> elems]

CArray(ty, elems) ==
    [k |-> "array", w |-> 0, v |-> 0, named |-> FALSE, ty |-> ty, elems |-> elems]

COther == [k |-> "other", w |-> 0, v |-> 0, named |-> FALSE, ty |-> "", elems |-> <<>>]

\* a struct field: its type kind, its initializer operand, its getStructId
Field(ty, c, sid) == [ty |-> ty, c |-> c, sid |-> sid]

\* A global variable: id = getVarId(GV), hasInit = hasInitializer(),
\* literal = the name starts with "." (a string literal)
Global(id, hasInit, literal, init) ==
    [id |-> id, hasInit |-> hasInit, literal |-> literal, init |-> init]

\* ------------------------------------------------------------------------
\* State of the pass
\* ------------------------------------------------------------------------

VARIABLES
    prog,        \* the module M under analysis, with the oracles' answers
    maxIter,     \* the MaxIterations option
    IntRanges,   \* Ctx->IntRanges: symbolic id -> range
    Changes,     \* RangePass::Changes
    FuncVRMs,    \* RangePass::FuncVRMs: block -> (value -> range)
    BackEdges,   \* RangePass::BackEdges
    itr,         \* doModulePass: itr
    changed,     \* doModulePass: changed, with the |= of the nested sweeps
    ret,         \* doModulePass: ret
    pc,          \* position in doInitialization / doModulePass
    fi,          \* index of the function the module loop is at
    bi,          \* index of the block the function loop is at
    ii,          \* index of the instruction the block loop is at
    hist         \* observations of the last step (no effect on the pass)

vars == <<prog, maxIter, IntRanges, Changes, FuncVRMs, BackEdges, itr,
          changed, ret, pc, fi, bi, ii, hist>>

\* TaintPass::isTaintSource, an oracle of the analysed module
isTaintSource(sID) == sID \in prog.taint

\* the function of the module with the given name
FuncNamed(name) == CHOOSE f \in {prog.funcs[i] : i \in DOMAIN prog.funcs} : f.name = name

\* std::map lookups and updates
Has(m, k) == k \in DOMAIN m

Put(m, k, v) == [x \in DOMAIN m \cup {k} |-> IF x = k THEN v ELSE m[x]]

\* std::map::insert keeps an existing entry
MapInsert(m, k, v) == IF Has(m, k) THEN m ELSE Put(m, k, v)

EmptyMap == [x \in {} |-> 0]

\* The part of the pass state the transfer functions read and write.  calls,
\* locals and queries only record, in order, the unionRange(sID, ...) calls,
\* the unionRange(BB, V, ...) calls and the getRange calls made so far in the
\* step; nothing reads them back.
PassState(IR, Ch, VRM) ==
    [IR |-> IR, Ch |-> Ch, VRM |-> VRM, calls |-> <<>>, locals |-> <<>>,
     queries |-> <<>>]

Cur == PassState(IntRanges, Changes, FuncVRMs)

\* the record of one unionRange(sID, R) call: S before, T after
CallRecord(S, T, sID, R, res) ==
    [sID |-> sID, R |-> R, before |-> S.IR, after |-> T.IR,
     chBefore |-> S.Ch, chAfter |-> T.Ch, res |-> res,
     vrmSame |-> T.VRM = S.VRM]

\* the record of one unionRange(BB, V, R) call: S before, T after
LocalRecord(S, T, BB, V, R, res) ==
    [BB |-> BB, V |-> V, R |-> R, before |-> S.VRM, after |-> T.VRM, res |-> res,
     tableSame |-> T.IR = S.IR /\ T.Ch = S.Ch]

\* the record of one getRange(BB, V) call: how it was answered, and with what
QueryRecord(BB, V, how, C) == [BB |-> BB, V |-> V, how |-> how, cr |-> C]

\* ------------------------------------------------------------------------
\* Range.cc
\* ------------------------------------------------------------------------

\* conv_and_warn_if_unmatch(V1, V2): the value V2 has afterwards
conv_and_warn_if_unmatch(V1, V2) ==
    IF V1.w # V2.w THEN zextOrTrunc(V2, V1.w) ELSE V2

\* the value of e bound to a name for the body K ("T x = e; ... x ... x
\* ..."): e is evaluated once, whatever the number of uses of x
With(e, K(_)) == CHOOSE r \in {K(x) : x \in {e}} : TRUE

\* safeUnion that compares Old with the argument R instead of the new CR
safeUnionCompareArg(C, R) ==
    With(unionWith(C, conv_and_warn_if_unmatch(C, R)),
         LAMBDA New : [cr |-> New, changed |-> conv_and_warn_if_unmatch(C, R) # C])

\* safeUnion that assigns the converted R instead of the union
safeUnionOverwrite(C, R) ==
    [cr |-> conv_and_warn_if_unmatch(C, R),
     changed |-> conv_and_warn_if_unmatch(C, R) # C]

\* safeUnion that converts CR to the width of R
safeUnionSwapped(C, R) ==
    With(unionWith(conv_and_warn_if_unmatch(R, C), R),
         LAMBDA New : [cr |-> New, changed |-> New # C])

\* RangePass::safeUnion(CR, R): the new CR and the returned flag
safeUnion(C, R) ==
    With(unionWith(C, conv_and_warn_if_unmatch(C, R)),
         LAMBDA New : [cr |-> New, changed |-> New # C])

\* unionRange(sID, R) without the test for an empty R
unionRangeCoreNoEmptyTest(S, sID, R) ==
    IF Has(S.IR, sID)
    THEN With(safeUnion(S.IR[sID], R),
              LAMBDA u : [S |-> [S EXCEPT !.IR = Put(S.IR, sID, u.cr),
                                          !.Ch = IF u.changed THEN @ \cup {sID} ELSE @],
                          changed |-> u.changed])
    ELSE [S |-> [S EXCEPT !.IR = Put(S.IR, sID, R), !.Ch = @ \cup {sID}],
          changed |-> TRUE]

\* unionRange(sID, R) with Changes.insert(sID) outside of "if (changed)"
unionRangeCoreAlwaysRecorded(S, sID, R) ==
    IF isEmptySet(R) THEN [S |-> S, changed |-> FALSE]
    ELSE IF Has(S.IR, sID)
    THEN With(safeUnion(S.IR[sID], R),
              LAMBDA u : [S |-> [S EXCEPT !.IR = Put(S.IR, sID, u.cr),
                                          !.Ch = @ \cup {sID}],
                          changed |-> u.changed])
    ELSE [S |-> [S EXCEPT !.IR = Put(S.IR, sID, R), !.Ch = @ \cup {sID}],
          changed |-> TRUE]

\* RangePass::unionRange(StringRef sID, const ConstantRange &R, Value *V):
\* the table and the ChangeSet afterwards, and the returned flag
unionRangeCore(S, sID, R) ==
    IF isEmptySet(R) THEN [S |-> S, changed |-> FALSE]
    ELSE IF Has(S.IR, sID)
    THEN With(safeUnion(S.IR[sID], R),
              LAMBDA u : [S |-> [S EXCEPT !.IR = Put(S.IR, sID, u.cr),
                                          !.Ch = IF u.changed THEN @ \cup {sID} ELSE @],
                          changed |-> u.changed])
    ELSE [S |-> [S EXCEPT !.IR = Put(S.IR, sID, R), !.Ch = @ \cup {sID}],
          changed |-> TRUE]

\* unionRange(sID, R), recorded
unionRange(S, sID, R) ==
    With(unionRangeCore(S, sID, R),
         LAMBDA u : [S |-> [u.S EXCEPT !.calls =
                                Append(@, CallRecord(S, u.S, sID, R, u.changed))],
                     changed |-> u.changed])

\* RangePass::unionRange(BasicBlock *BB, Value *V, const ConstantRange &R)
unionRangeBBCore(S, BB, V, R) ==
    IF isEmptySet(R) THEN [S |-> S, changed |-> FALSE]
    ELSE IF Has(S.VRM[BB], V)
    THEN With(safeUnion(S.VRM[BB][V], R),
              LAMBDA u : [S |-> [S EXCEPT !.VRM[BB] = Put(@, V, u.cr)],
                          changed |-> u.changed])
    ELSE [S |-> [S EXCEPT !.VRM[BB] = Put(@, V, R)], changed |-> TRUE]

\* unionRange(BB, V, R), recorded
unionRangeBB(S, BB, V, R) ==
    With(unionRangeBBCore(S, BB, V, R),
         LAMBDA u : [S |-> [u.S EXCEPT !.locals =
                                Append(@, LocalRecord(S, u.S, BB, V, R, u.changed))],
                     changed |-> u.changed])

\* getRange, lines 115-130: the union of the return ranges of the callees
\* i.. of a call, FullSet as soon as one return id is a taint source
RECURSIVE calleeRanges(_, _, _, _, _)
calleeRanges(S, CEEs, i, C, Fullset) ==
    IF i > Len(CEEs) THEN C
    ELSE LET sID == FuncNamed(CEEs[i]).retId
         IN IF sID # "" /\ isTaintSource(sID) THEN Fullset
            ELSE With(IF Has(S.IR, sID) THEN safeUnion(C, S.IR[sID]).cr ELSE C,
                      LAMBDA U : calleeRanges(S, CEEs, i + 1, U, Fullset))

\* getRange without the isTaintSource test for arguments and loads
globalRangeNoTaint(S, V) ==
    IF V.k = "call"
    THEN IF ~V.asm /\ V.resolved
         THEN calleeRanges(S, V.callees, 1, EmptySet(V.w), FullSet(V.w))
         ELSE EmptySet(V.w)
    ELSE zextOrTrunc(
             IF V.sid # "" /\ Has(S.IR, V.sid) THEN S.IR[V.sid] ELSE EmptySet(V.w),
             V.w)

\* getRange, lines 108-143: the range of a value that is not in the block's
\* map, from the global table and the taint oracle
globalRange(S, V) ==
    IF V.k = "call"
    THEN IF ~V.asm /\ V.resolved
         THEN calleeRanges(S, V.callees, 1, EmptySet(V.w), FullSet(V.w))
         ELSE EmptySet(V.w)
    ELSE zextOrTrunc(
             IF V.sid # ""
             THEN IF isTaintSource(V.sid) THEN FullSet(V.w)
                  ELSE IF Has(S.IR, V.sid) THEN S.IR[V.sid]
                  ELSE EmptySet(V.w)
             ELSE EmptySet(V.w),
             V.w)

\* RangePass::getRange(BasicBlock *BB, Value *V): the range, how it was
\* found, and the state (the block's map memoizes a non-empty answer)
getRangeCore(S, BB, V) ==
    IF V.k = "const" THEN [S |-> S, cr |-> Single(V.w, V.v), how |-> "const"]
    ELSE IF Has(S.VRM[BB], V) THEN [S |-> S, cr |-> S.VRM[BB][V], how |-> "local"]
    ELSE With(globalRange(S, V),
              LAMBDA C : [S |-> IF ~isEmptySet(C)
                                THEN [S EXCEPT !.VRM[BB] = MapInsert(@, V, C)]
                                ELSE S,
                          cr |-> C, how |-> "global"])

\* getRange(BB, V), recorded
getRange(S, BB, V) ==
    With(getRangeCore(S, BB, V),
         LAMBDA g : [S |-> [g.S EXCEPT !.queries =
                                Append(@, QueryRecord(BB, V, g.how, g.cr))],
                     cr |-> g.cr])

\* RangePass::collectInitializers(GlobalVariable *GV, Constant *I); GV is
\* getVarId(GV)
RECURSIVE collectInitializers(_, _, _)
RECURSIVE collectFields(_, _, _, _)
RECURSIVE collectElements(_, _, _, _)
collectInitializers(S, GV, I) ==
    IF I.k = "int" THEN unionRange(S, GV, Single(I.w, I.v)).S
    ELSE IF I.k = "struct"
    THEN IF ~I.named THEN S ELSE collectFields(S, GV, I, 1)
    ELSE IF I.k = "array"
    THEN IF I.ty \in {"struct", "int"} THEN collectElements(S, GV, I, 1) ELSE S
    ELSE S

\* lines 165-178: the fields i.. of a named struct
collectFields(S, GV, I, i) ==
    IF i > Len(I.elems) THEN S
    ELSE With(IF I.elems[i].ty = "struct"
              THEN collectInitializers(S, GV, I.elems[i].c)
              ELSE IF I.elems[i].ty = "int" /\ I.elems[i].sid # ""
                      /\ I.elems[i].c.k = "int"
              THEN unionRange(S, I.elems[i].sid,
                              Single(I.elems[i].c.w, I.elems[i].c.v)).S
              ELSE S,
              LAMBDA T : collectFields(T, GV, I, i + 1))

\* lines 185-186: the elements i.. of an array
collectElements(S, GV, I, i) ==
    IF i > Len(I.elems) THEN S
    ELSE With(collectInitializers(S, GV, I.elems[i]),
              LAMBDA T : collectElements(T, GV, I, i + 1))

\* RangePass::doInitialization: the globals i.. of the module
RECURSIVE doInitialization(_, _)
doInitialization(S, i) ==
    IF i > Len(prog.globals) THEN S
    ELSE With(IF prog.globals[i].hasInit /\ ~prog.globals[i].literal
              THEN collectInitializers(S, prog.globals[i].id, prog.globals[i].init)
              ELSE S,
              LAMBDA T : doInitialization(T, i + 1))

\* Type::isIntegerTy of a value's type
isIntegerTy(V) == V.k \in {"const", "arg", "load", "call", "inst"} /\ V.w > 0

BinaryOpcodes ==
    {"add", "sub", "mul", "udiv", "sdiv", "urem", "srem", "shl", "lshr",
     "ashr", "and", "or", "xor"}

CastOpcodes == {"ptrtoint", "trunc", "zext", "sext", "bitcast"}

\* visitBinaryOp, lines 213-228: the switch on the opcode
binaryOpRange(code, L, R) ==
    CASE code = "add"  -> add(L, R)
      [] code = "sub"  -> sub(L, R)
      [] code = "mul"  -> multiply(L, R)
      [] code = "udiv" -> udiv(L, R)
      [] code = "sdiv" -> L
      [] code = "urem" -> R
      [] code = "srem" -> R
      [] code = "shl"  -> shl(L, R)
      [] code = "lshr" -> lshr(L, R)
      [] code = "ashr" -> L
      [] code = "and"  -> binaryAnd(L, R)
      [] code = "or"   -> binaryOr(L, R)
      [] OTHER         -> L   \* xor

\* RangePass::visitBinaryOp
visitBinaryOp(S, BB, BO) ==
    With(getRange(S, BB, BO.x), LAMBDA g1 :
    With(getRange(g1.S, BB, BO.y), LAMBDA g2 :
        [S |-> g2.S,
         cr |-> binaryOpRange(BO.code, g1.cr,
                              conv_and_warn_if_unmatch(g1.cr, g2.cr))]))

\* visitCastInst, lines 242-248: the switch on the opcode
castRange(code, C, bits) ==
    CASE code = "trunc" -> zextOrTrunc(C, bits)
      [] code = "zext"  -> zextOrTrunc(C, bits)
      [] code = "sext"  -> signExtend(C, bits)
      [] OTHER          -> C   \* bitcast

\* RangePass::visitCastInst
visitCastInst(S, BB, CI) ==
    IF CI.code = "ptrtoint" THEN [S |-> S, cr |-> FullSet(CI.res.w)]
    ELSE With(getRange(S, BB, CI.x), LAMBDA g :
             [S |-> g.S, cr |-> castRange(CI.code, g.cr, CI.res.w)])

\* RangePass::visitSelectInst
visitSelectInst(S, BB, SI) ==
    With(getRange(S, BB, SI.x), LAMBDA g1 :
    With(getRange(g1.S, BB, SI.y), LAMBDA g2 :
        [S |-> g2.S, cr |-> safeUnion(g1.cr, g2.cr).cr]))

\* isBackEdge that finds no edge in BackEdges
isBackEdgeNever(E) == FALSE

\* RangePass::isBackEdge
isBackEdge(E) == E \in BackEdges

\* RangePass::visitPHINode, the incoming values i.. with C the union so far
RECURSIVE visitPHINode(_, _, _, _, _)
visitPHINode(S, BB, PHI, i, C) ==
    IF i > Len(PHI.inc) THEN [S |-> S, cr |-> C]
    ELSE IF isBackEdge(<<PHI.inc[i].blk, BB>>) THEN visitPHINode(S, BB, PHI, i + 1, C)
    ELSE With(getRange(S, PHI.inc[i].blk, PHI.inc[i].val), LAMBDA g :
         With(safeUnion(C, g.cr).cr, LAMBDA U :
             visitPHINode(g.S, BB, PHI, i + 1, U)))

\* visitCallInst that updates the callee's first parameter only
callArgumentsFirst(S, BB, CI, F, j, ch) ==
    IF Len(CI.args) = 0 \/ ~isIntegerTy(CI.args[1]) THEN [S |-> S, changed |-> ch]
    ELSE With(getRange(S, BB, CI.args[1]), LAMBDA g :
         With(unionRange(g.S, F.argIds[1], g.cr), LAMBDA u :
             [S |-> u.S, changed |-> ch \/ u.changed]))

\* visitCallInst, lines 289-296: the arguments j.. for the callee F
RECURSIVE callArguments(_, _, _, _, _, _)
callArguments(S, BB, CI, F, j, ch) ==
    IF j > Len(CI.args) THEN [S |-> S, changed |-> ch]
    ELSE IF ~isIntegerTy(CI.args[j]) THEN callArguments(S, BB, CI, F, j + 1, ch)
    ELSE With(getRange(S, BB, CI.args[j]), LAMBDA g :
         With(unionRange(g.S, F.argIds[j], g.cr), LAMBDA u :
             callArguments(u.S, BB, CI, F, j + 1, ch \/ u.changed)))

\* visitCallInst, lines 283-297: the callees i..
RECURSIVE callCallees(_, _, _, _, _)
callCallees(S, BB, CI, i, ch) ==
    IF i > Len(CI.res.callees) THEN [S |-> S, changed |-> ch]
    ELSE IF FuncNamed(CI.res.callees[i]).vararg \/ FuncNamed(CI.res.callees[i]).dotted
    THEN callCallees(S, BB, CI, i + 1, ch)
    ELSE With(callArguments(S, BB, CI, FuncNamed(CI.res.callees[i]), 1, ch),
              LAMBDA a : callCallees(a.S, BB, CI, i + 1, a.changed))

\* RangePass::visitCallInst
visitCallInst(S, BB, CI) ==
    IF CI.res.asm \/ ~CI.res.resolved THEN [S |-> S, changed |-> FALSE]
    ELSE With(callCallees(S, BB, CI, 1, FALSE), LAMBDA a :
             IF CI.res.w > 0
             THEN With(getRange(a.S, BB, CI.res), LAMBDA g :
                  With(unionRange(g.S, CI.res.sid, g.cr), LAMBDA u :
                      [S |-> u.S, changed |-> a.changed \/ u.changed]))
             ELSE a)

\* visitStoreInst that returns false whatever unionRange returns
visitStoreInstUnreported(S, BB, SI) ==
    IF isIntegerTy(SI.x) /\ SI.sid # ""
    THEN With(getRange(S, BB, SI.x), LAMBDA g :
         With(unionRangeBB(g.S, BB, SI.y, g.cr), LAMBDA u :
             [S |-> unionRange(u.S, SI.sid, g.cr).S, changed |-> FALSE]))
    ELSE [S |-> S, changed |-> FALSE]

\* RangePass::visitStoreInst
visitStoreInst(S, BB, SI) ==
    IF isIntegerTy(SI.x) /\ SI.sid # ""
    THEN With(getRange(S, BB, SI.x), LAMBDA g :
         With(unionRangeBB(g.S, BB, SI.y, g.cr), LAMBDA u :
             unionRange(u.S, SI.sid, g.cr)))
    ELSE [S |-> S, changed |-> FALSE]

\* RangePass::visitReturnInst; F is the function of the block
visitReturnInst(S, BB, RI, F) ==
    IF ~isIntegerTy(RI.x) THEN [S |-> S, changed |-> FALSE]
    ELSE With(getRange(S, BB, RI.x), LAMBDA g : unionRange(g.S, F.retId, g.cr))

\* updateRangeFor(Instruction *I), lines 330-337: the global updates
visitGlobal(S, BB, I, F) ==
    CASE I.op = "store" -> visitStoreInst(S, BB, I)
      [] I.op = "ret"   -> visitReturnInst(S, BB, I, F)
      [] I.op = "call"  -> visitCallInst(S, BB, I)
      [] OTHER          -> [S |-> S, changed |-> FALSE]

\* updateRangeFor(Instruction *I), lines 343-356: the instruction's range
visitLocal(S, BB, I) ==
    CASE I.op = "binop"  -> visitBinaryOp(S, BB, I)
      [] I.op = "cast"   -> visitCastInst(S, BB, I)
      [] I.op = "select" -> visitSelectInst(S, BB, I)
      [] I.op = "phi"    -> visitPHINode(S, BB, I, 1, EmptySet(I.res.w))
      [] I.op = "load"   -> getRange(S, BB, I.res)
      [] I.op = "call"   -> getRange(S, BB, I.res)
      [] OTHER           -> [S |-> S, cr |-> FullSet(I.res.w)]

\* updateRangeFor(Instruction *I) that also reports a change of the block's map
updateRangeForInstLocalCounts(S, BB, I, F) ==
    With(visitGlobal(S, BB, I, F), LAMBDA r1 :
        IF I.res.w = 0 THEN r1
        ELSE With(visitLocal(r1.S, BB, I), LAMBDA r2 :
             With(unionRangeBB(r2.S, BB, I.res, r2.cr), LAMBDA u :
                 [S |-> u.S, changed |-> r1.changed \/ u.changed])))

\* RangePass::updateRangeFor(Instruction *I)
updateRangeForInst(S, BB, I, F) ==
    With(visitGlobal(S, BB, I, F), LAMBDA r1 :
        IF I.res.w = 0 THEN r1
        ELSE With(visitLocal(r1.S, BB, I), LAMBDA r2 :
                 [S |-> unionRangeBB(r2.S, BB, I.res, r2.cr).S,
                  changed |-> r1.changed]))

\* visitBranchInst, lines 387-406: the copy VRM refined for successor BB
refineBranch(BI, BB, VRM, LCR, RCR) ==
    LET PLCR == IF BI.succs[1] = BB
                THEN makeICmpRegion(SwappedPredicate(BI.code), LCR)
                ELSE makeICmpRegion(InversePredicate(SwappedPredicate(BI.code)), RCR)
        PRCR == IF BI.succs[1] = BB
                THEN makeICmpRegion(BI.code, RCR)
                ELSE makeICmpRegion(InversePredicate(BI.code), RCR)
    IN MapInsert(MapInsert(VRM, BI.x, intersectWith(LCR, PRCR)),
                 BI.y, intersectWith(LCR, PLCR))

\* RangePass::visitBranchInst(BI, BB, VRM): the refined copy VRM, the state
\* (getRange memoizes in the comparison's block) and the ranges LCR, RCR
visitBranchInst(S, BI, BB, VRM) ==
    IF ~BI.cond \/ ~BI.isICmp \/ ~isIntegerTy(BI.x) \/ ~isIntegerTy(BI.y)
    THEN [S |-> S, vrm |-> VRM, refined |-> FALSE, l |-> EmptySet(1), r |-> EmptySet(1)]
    ELSE With(getRange(S, BI.icmpParent, BI.x), LAMBDA g1 :
         With(getRange(g1.S, BI.icmpParent, BI.y), LAMBDA g2 :
         With(conv_and_warn_if_unmatch(g1.cr, g2.cr), LAMBDA RCR :
             [S |-> g2.S, vrm |-> refineBranch(BI, BB, VRM, g1.cr, RCR),
              refined |-> TRUE, l |-> g1.cr, r |-> RCR])))

\* visitSwitchInst: the union of the case values i.. that go to BB (of all
\* case values when all is set)
RECURSIVE caseUnion(_, _, _, _, _)
caseUnion(SI, BB, all, i, C) ==
    IF i > Len(SI.cases) THEN C
    ELSE With(IF all \/ SI.cases[i].succ = BB
              THEN safeUnion(C, Single(SI.x.w, SI.cases[i].val)).cr
              ELSE C,
              LAMBDA U : caseUnion(SI, BB, all, i + 1, U))

\* visitSwitchInst, lines 418-433: the values of the condition that lead to BB
switchRegion(SI, BB) ==
    IF SI.succs[1] # BB
    THEN caseUnion(SI, BB, FALSE, 1, EmptySet(SI.x.w))
    ELSE With(caseUnion(SI, BB, TRUE, 1, EmptySet(SI.x.w)), LAMBDA U : inverse(U))

\* RangePass::visitSwitchInst(SI, BB, VRM); Pred is SI->getParent()
visitSwitchInst(S, SI, Pred, BB, VRM) ==
    IF ~isIntegerTy(SI.x)
    THEN [S |-> S, vrm |-> VRM, refined |-> FALSE, l |-> EmptySet(1), r |-> EmptySet(1)]
    ELSE With(getRange(S, Pred, SI.x), LAMBDA g :
         With(switchRegion(SI, BB), LAMBDA C :
             [S |-> g.S, vrm |-> MapInsert(VRM, SI.x, intersectWith(g.cr, C)),
              refined |-> TRUE, l |-> g.cr, r |-> C]))

\* RangePass::visitTerminator (a terminator of another kind aborts, see
\* AbortsMerge)
visitTerminator(S, I, Pred, BB, VRM) ==
    IF I.op = "br" THEN visitBranchInst(S, I, BB, VRM)
    ELSE visitSwitchInst(S, I, Pred, BB, VRM)

\* the block of function F with the given name, and its terminator
BlockNamed(F, name) ==
    CHOOSE b \in {F.blocks[i] : i \in DOMAIN F.blocks} : b.name = name

Terminator(B) == B.insts[Len(B.insts)]

\* updateRangeFor(BasicBlock *BB), lines 470-477: BBVRM after the union with
\* the refined copy VRM of one predecessor
unionWithPred(BBVRM, VRM) ==
    [k \in DOMAIN BBVRM \cup DOMAIN VRM |->
        IF k \in DOMAIN VRM
        THEN IF k \in DOMAIN BBVRM THEN safeUnion(BBVRM[k], VRM[k]).cr ELSE VRM[k]
        ELSE BBVRM[k]]

\* what the processing of one predecessor edge is recorded as
EdgeRecord(Pred, PredVRM, t) ==
    [pred |-> Pred, had |-> PredVRM, vrm |-> t.vrm, refined |-> t.refined,
     l |-> t.l, r |-> t.r]

\* updateRangeFor(BasicBlock *BB), lines 455-478: the predecessors i.. of
\* block B of F; edges records, per edge processed, the refined copy
RECURSIVE propagatePreds(_, _, _, _, _)
propagatePreds(S, F, B, i, edges) ==
    IF i > Len(B.preds) THEN [S |-> S, edges |-> edges]
    ELSE IF isBackEdge(<<B.preds[i], B.name>>) THEN propagatePreds(S, F, B, i + 1, edges)
    ELSE With(visitTerminator(S, Terminator(BlockNamed(F, B.preds[i])), B.preds[i],
                              B.name, S.VRM[B.preds[i]]),
              LAMBDA t :
                  With([S |-> [t.S EXCEPT !.VRM[B.name] = unionWithPred(@, t.vrm)],
                        edges |-> Append(edges,
                                         EdgeRecord(B.preds[i], S.VRM[B.preds[i]], t))],
                       LAMBDA m : propagatePreds(m.S, F, B, i + 1, m.edges)))

\* succ_begin(BB) .. succ_end(BB): the successors of a block, in the order
\* of its terminator's operands (the default destination of a switch first)
RECURSIVE caseSuccessors(_, _)
caseSuccessors(cases, i) ==
    IF i > Len(cases) THEN <<>>
    ELSE <<cases[i].succ>> \o caseSuccessors(cases, i + 1)

Successors(B) == Terminator(B).succs \o caseSuccessors(Terminator(B).cases, 1)

\* llvm::FindFunctionBackedges(F, BackEdges): the depth-first walk from the
\* entry block; an edge to a block that is on the visit stack is a back edge
RECURSIVE backedgeWalk(_, _, _, _, _)
backedgeWalk(F, Visited, VisitStack, InStack, Result) ==
    IF VisitStack = <<>> THEN Result
    ELSE LET n    == Len(VisitStack)
             Top  == VisitStack[n]
             Succ == Successors(BlockNamed(F, Top.bb))
         IN With(
              IF Top.i > Len(Succ)
              THEN [V |-> Visited, VS |-> SubSeq(VisitStack, 1, n - 1),
                    IS |-> InStack \ {Top.bb}, R |-> Result]
              ELSE LET BB    == Succ[Top.i]
                       Stack == [VisitStack EXCEPT ![n].i = Top.i + 1]
                   IN IF BB \notin Visited
                      THEN [V |-> Visited \cup {BB},
                            VS |-> Append(Stack, [bb |-> BB, i |-> 1]),
                            IS |-> InStack \cup {BB}, R |-> Result]
                      ELSE [V |-> Visited, VS |-> Stack, IS |-> InStack,
                            R |-> IF BB \in InStack
                                  THEN Result \cup {<<Top.bb, BB>>}
                                  ELSE Result],
              LAMBDA w : backedgeWalk(F, w.V, w.VS, w.IS, w.R))

FindFunctionBackedges(F) ==
    LET Entry == F.blocks[1].name
    IN backedgeWalk(F, {Entry}, <<[bb |-> Entry, i |-> 1]>>, {Entry}, {})

\* doModulePass without the widening
widenNothing(IR, Ch) == IR

\* doModulePass that widens every id of the table
widenAll(IR, Ch) == [id \in DOMAIN IR |-> FullSet(IR[id].w)]

\* doModulePass that widens to every value but 0
widenButZero(IR, Ch) ==
    [id \in DOMAIN IR |-> IF id \in Ch THEN CR(IR[id].w, 1, 0) ELSE IR[id]]

\* doModulePass, lines 511-515: the table after the widening of the ids of
\* the ChangeSet
widen(IR, Ch) ==
    [id \in DOMAIN IR |-> IF id \in Ch THEN FullSet(IR[id].w) ELSE IR[id]]

\* updateRangeFor(Function *F), lines 493-494: the cleared block maps
clearedVRMs(F) == [b \in {F.blocks[i].name : i \in DOMAIN F.blocks} |-> EmptyMap]

\* updateRangeFor(BasicBlock *BB), lines 481-484: the instructions i.. of
\* block B, ch the flag so far
RECURSIVE updateRangeForInsts(_, _, _, _, _)
updateRangeForInsts(S, F, B, i, ch) ==
    IF i > Len(B.insts) THEN [S |-> S, changed |-> ch]
    ELSE With(updateRangeForInst(S, B.name, B.insts[i], F),
              LAMBDA r : updateRangeForInsts(r.S, F, B, i + 1, ch \/ r.changed))

\* RangePass::updateRangeFor(BasicBlock *BB)
updateRangeForBlock(S, F, B) ==
    With(propagatePreds(S, F, B, 1, <<>>),
         LAMBDA p : updateRangeForInsts(p.S, F, B, 1, FALSE))

\* updateRangeFor(Function *F), lines 497-498: the blocks b.. of F
RECURSIVE updateRangeForBlocks(_, _, _, _)
updateRangeForBlocks(S, F, b, ch) ==
    IF b > Len(F.blocks) THEN [S |-> S, changed |-> ch]
    ELSE With(updateRangeForBlock(S, F, F.blocks[b]),
              LAMBDA r : updateRangeForBlocks(r.S, F, b + 1, ch \/ r.changed))

\* RangePass::updateRangeFor(Function *F), for the function BackEdges has
\* been found for
updateRangeForFunction(S, F) ==
    With(PassState(S.IR, S.Ch, clearedVRMs(F)),
         LAMBDA S0 : updateRangeForBlocks(S0, F, 1, FALSE))

\* one more updateRangeFor(F) from the table of S reports no change, leaves
\* the table as it is and builds the block maps that S has
Repeats(S, F) ==
    With(updateRangeForFunction(S, F),
         LAMBDA r : ~r.changed /\ r.S.IR = S.IR /\ r.S.VRM = S.VRM)

\* updateRangeFor(Instruction) that finds a case for every opcode
AbortsInstNever(I) == FALSE

\* llvm_unreachable in visitBinaryOp / visitCastInst
AbortsInst(I) ==
    /\ I.res.w > 0
    /\ \/ I.op = "binop" /\ I.code \notin BinaryOpcodes
       \/ I.op = "cast" /\ I.code \notin CastOpcodes

\* llvm_unreachable in visitTerminator: a predecessor over a non-back edge
\* ends in a terminator that is neither a branch nor a switch
AbortsMerge(F, B) ==
    \E i \in DOMAIN B.preds :
        /\ ~isBackEdge(<<B.preds[i], B.name>>)
        /\ Terminator(BlockNamed(F, B.preds[i])).op \notin {"br", "switch"}

\* what a call site is expected to contribute to its callees' parameter
\* ids: one fact per callee and integer argument, with the argument's range
\* at the call
ArgFacts(S, BB, CI) ==
    IF CI.op # "call" \/ CI.res.asm \/ ~CI.res.resolved THEN {}
    ELSE {[F |-> CI.res.callees[i], j |-> j,
           id |-> FuncNamed(CI.res.callees[i]).argIds[j],
           skipped |-> FuncNamed(CI.res.callees[i]).vararg
                           \/ FuncNamed(CI.res.callees[i]).dotted,
           R |-> getRangeCore(S, BB, CI.args[j]).cr] :
          <<i, j>> \in {p \in (DOMAIN CI.res.callees) \X (DOMAIN CI.args) :
                            isIntegerTy(CI.args[p[2]])}}

\* ------------------------------------------------------------------------
\* The steps of doInitialization and doModulePass
\* ------------------------------------------------------------------------

\* the largest MaxIterations option tried
MaxIterCap == 4

\* rounds after which the model stops a driver that still has not converged
MaxRounds == 12

\* hist remembers what the last step did (kind, the calls it made, the
\* edges it processed, the ids it widened), and of the run: start, the table
\* the round's sweeps started from; moved, the functions of the round whose
\* sweep would not repeat itself; ever, the ids widened so far
NoHist ==
    [kind |-> "none", calls |-> <<>>, locals |-> <<>>, queries |-> <<>>,
     edges |-> <<>>, widened |-> {}, inst |-> NoInst, bb |-> "", args |-> {},
     start |-> EmptyMap, moved |-> {}, ever |-> {}]

CurFunc == prog.funcs[fi]

CurBlock == CurFunc.blocks[bi]

\* RangePass::doInitialization, then the first lines of doModulePass
DoInitialization ==
    /\ pc = "init"
    /\ \E S \in {doInitialization(Cur, 1)} :
           /\ IntRanges' = S.IR
           /\ Changes' = S.Ch
           /\ hist' = [NoHist EXCEPT !.kind = "init", !.calls = S.calls]
    /\ itr' = 0
    /\ changed' = TRUE
    /\ ret' = FALSE
    /\ pc' = "loop"
    /\ UNCHANGED <<prog, maxIter, FuncVRMs, BackEdges, fi, bi, ii>>

\* doModulePass, lines 508-518: the loop test, the widening, the reset
BeginRound ==
    /\ pc = "loop"
    /\ changed
    /\ itr < MaxRounds
    /\ itr' = itr + 1
    /\ IntRanges' = IF itr + 1 > maxIter THEN widen(IntRanges, Changes) ELSE IntRanges
    /\ changed' = FALSE
    /\ Changes' = {}
    /\ fi' = 1
    /\ pc' = "module"
    /\ hist' = [NoHist EXCEPT !.kind = "begin",
                              !.widened = IF itr + 1 > maxIter THEN Changes ELSE {},
                              !.start = IntRanges',
                              !.ever = hist.ever
                                         \cup IF itr + 1 > maxIter THEN Changes ELSE {}]
    /\ UNCHANGED <<prog, maxIter, FuncVRMs, BackEdges, ret, bi, ii>>

\* doModulePass, lines 508 and 524: the loop ends
ExitLoop ==
    /\ pc = "loop"
    /\ ~changed
    /\ pc' = "done"
    /\ hist' = [NoHist EXCEPT !.kind = "exit", !.start = hist.start,
                              !.moved = hist.moved, !.ever = hist.ever]
    /\ UNCHANGED <<prog, maxIter, IntRanges, Changes, FuncVRMs, BackEdges, itr,
                   changed, ret, fi, bi, ii>>

\* doModulePass, line 522: the module loop is through
EndRound ==
    /\ pc = "module"
    /\ fi > Len(prog.funcs)
    /\ ret' = (ret \/ changed)
    /\ pc' = "loop"
    /\ hist' = [hist EXCEPT !.kind = "end", !.calls = <<>>, !.locals = <<>>, !.queries = <<>>,
                            !.edges = <<>>, !.inst = NoInst, !.bb = ""]
    /\ UNCHANGED <<prog, maxIter, IntRanges, Changes, FuncVRMs, BackEdges, itr,
                   changed, fi, bi, ii>>

\* doModulePass, line 520: a function without blocks is skipped
SkipFunction ==
    /\ pc = "module"
    /\ fi <= Len(prog.funcs)
    /\ CurFunc.blocks = <<>>
    /\ fi' = fi + 1
    /\ hist' = [hist EXCEPT !.kind = "skip", !.calls = <<>>, !.locals = <<>>, !.queries = <<>>,
                            !.edges = <<>>, !.inst = NoInst, !.bb = ""]
    /\ UNCHANGED <<prog, maxIter, IntRanges, Changes, FuncVRMs, BackEdges, itr,
                   changed, ret, pc, bi, ii>>

\* updateRangeFor(Function *F), lines 493-495
EnterFunction ==
    /\ pc = "module"
    /\ fi <= Len(prog.funcs)
    /\ CurFunc.blocks # <<>>
    /\ FuncVRMs' = clearedVRMs(CurFunc)
    /\ BackEdges' = FindFunctionBackedges(CurFunc)
    /\ bi' = 1
    /\ pc' = "block"
    /\ hist' = [hist EXCEPT !.kind = "enter", !.calls = <<>>, !.locals = <<>>, !.queries = <<>>,
                            !.edges = <<>>, !.inst = NoInst, !.bb = ""]
    /\ UNCHANGED <<prog, maxIter, IntRanges, Changes, itr, changed, ret, fi, ii>>

\* updateRangeFor(Function *F), lines 497-500: the block loop is through
LeaveFunction ==
    /\ pc = "block"
    /\ bi > Len(CurFunc.blocks)
    /\ fi' = fi + 1
    /\ pc' = "module"
    /\ \E again \in {Repeats(Cur, CurFunc)} :
           hist' = [hist EXCEPT !.kind = "leave", !.calls = <<>>, !.locals = <<>>,
                                !.queries = <<>>, !.edges = <<>>, !.inst = NoInst,
                                !.bb = "",
                                !.moved = IF again THEN @ ELSE @ \cup {CurFunc.name}]
    /\ UNCHANGED <<prog, maxIter, IntRanges, Changes, FuncVRMs, BackEdges, itr,
                   changed, ret, bi, ii>>

\* updateRangeFor(BasicBlock *BB), lines 455-478
PropagateBlock ==
    /\ pc = "block"
    /\ bi <= Len(CurFunc.blocks)
    /\ ~AbortsMerge(CurFunc, CurBlock)
    /\ \E p \in {propagatePreds(Cur, CurFunc, CurBlock, 1, <<>>)} :
           /\ FuncVRMs' = p.S.VRM
           /\ hist' = [hist EXCEPT !.kind = "block", !.calls = <<>>, !.locals = <<>>,
                                   !.queries = p.S.queries, !.edges = p.edges,
                                   !.inst = NoInst, !.bb = CurBlock.name]
    /\ ii' = 1
    /\ pc' = "inst"
    /\ UNCHANGED <<prog, maxIter, IntRanges, Changes, BackEdges, itr, changed,
                   ret, fi, bi>>

\* visitTerminator, line 444: llvm_unreachable ends the program in a build
\* with assertions; in a build without them the behaviour is undefined, and
\* the pass has left what this module describes (pc = "undefined")
AbortBlock ==
    /\ pc = "block"
    /\ bi <= Len(CurFunc.blocks)
    /\ AbortsMerge(CurFunc, CurBlock)
    /\ pc' \in {"abort", "undefined"}
    /\ hist' = [NoHist EXCEPT !.kind = "abort", !.bb = CurBlock.name]
    /\ UNCHANGED <<prog, maxIter, IntRanges, Changes, FuncVRMs, BackEdges, itr,
                   changed, ret, fi, bi, ii>>

\* updateRangeFor(BasicBlock *BB), lines 481-484: one instruction
VisitInst ==
    /\ pc = "inst"
    /\ ~AbortsInst(CurBlock.insts[ii])
    /\ \E r \in {updateRangeForInst(Cur, CurBlock.name, CurBlock.insts[ii], CurFunc)} :
           /\ IntRanges' = r.S.IR
           /\ Changes' = r.S.Ch
           /\ FuncVRMs' = r.S.VRM
           /\ changed' = (changed \/ r.changed)
           /\ hist' = [hist EXCEPT !.kind = "inst", !.calls = r.S.calls,
                                   !.locals = r.S.locals,
                                   !.queries = r.S.queries, !.edges = <<>>,
                                   !.inst = CurBlock.insts[ii], !.bb = CurBlock.name,
                                   !.args = @ \cup ArgFacts(Cur, CurBlock.name,
                                                            CurBlock.insts[ii])]
    /\ IF ii = Len(CurBlock.insts)
       THEN bi' = bi + 1 /\ pc' = "block" /\ ii' = ii
       ELSE ii' = ii + 1 /\ pc' = "inst" /\ bi' = bi
    /\ UNCHANGED <<prog, maxIter, BackEdges, itr, ret, fi>>

\* llvm_unreachable in visitBinaryOp, visitCastInst: an abort, or undefined
\* behaviour in a build without assertions
AbortInst ==
    /\ pc = "inst"
    /\ AbortsInst(CurBlock.insts[ii])
    /\ pc' \in {"abort", "undefined"}
    /\ hist' = [NoHist EXCEPT !.kind = "abort", !.inst = CurBlock.insts[ii],
                              !.bb = CurBlock.name]
    /\ UNCHANGED <<prog, maxIter, IntRanges, Changes, FuncVRMs, BackEdges, itr,
                   changed, ret, fi, bi, ii>>

\* ------------------------------------------------------------------------
\* The analysed modules
\* ------------------------------------------------------------------------

\* the module [funcs, globals, taint]: taint is the set of symbolic ids the
\* taint oracle names
Module(funcs, globals, taint) == [funcs |-> funcs, globals |-> globals, taint |-> taint]

\* a counter: G = G + 1 on every call, H = G / 2^(w-1)
CounterModule(w) ==
    LET g == Ld("g", w, "G")
        t == Tmp("t", w)
        u == Tmp("u", w)
    IN Module(
        <<Function("inc", "ret.inc", <<>>, FALSE, FALSE,
            <<Block("b0", <<>>,
                <<Load(g),
                  BinOp(t, "add", g, ConstInt(w, 1)),
                  Store("G", t, Ptr("pG", w)),
                  BinOp(u, "udiv", g, ConstInt(w, Pow2(w - 1))),
                  Store("H", u, Ptr("pH", w)),
                  Ret(NoValue)>>)>>)>>,
        <<Global("G", TRUE, FALSE, CInt(w, 0))>>,
        {})

\* f(x, y) { if (x pred rhs) {AT = x; BT = y} else {AF = x; BF = y} },
\* called from main with x in [3,150] and y in [100,200]; pre: x and y are
\* used in the entry block before the comparison; rhsConst: the right-hand
\* side is the constant k instead of y; tainted: f's first parameter is a
\* taint source
BranchModule(pred, k, pre, rhsConst, tainted) ==
    LET x   == Arg("x", 8, "f.x")
        y   == Arg("y", 8, "f.y")
        rhs == IF rhsConst THEN ConstInt(8, k) ELSE y
        a   == Ld("a", 8, "X0")
        b   == Ld("b", 8, "Y0")
        use == IF pre THEN <<BinOp(Tmp("s", 8), "xor", x, y),
                             BinOp(Tmp("s2", 8), "xor", y, x)>>
               ELSE <<>>
    IN Module(
        <<Function("main", "ret.main", <<>>, FALSE, FALSE,
            <<Block("b0", <<>>,
                <<Load(a), Load(b),
                  Call(CallV("c0", 0, "", <<"f">>, TRUE, FALSE), <<a, b>>),
                  Ret(NoValue)>>)>>),
          Function("f", "ret.f", <<"f.x", "f.y">>, FALSE, FALSE,
            <<Block("entry", <<>>,
                use \o <<ICmp(Tmp("c", 1), pred, x, rhs),
                         CondBr("entry", pred, x, rhs, "T", "F")>>),
              Block("T", <<"entry">>,
                <<Store("AT", x, Ptr("pAT", 8)), Store("BT", y, Ptr("pBT", 8)),
                  Br("J")>>),
              Block("F", <<"entry">>,
                <<Store("AF", x, Ptr("pAF", 8)), Store("BF", y, Ptr("pBF", 8)),
                  Br("J")>>),
              Block("J", <<"T", "F">>, <<Ret(x)>>)>>)>>,
        <<Global("X0", TRUE, FALSE, CArray("int", <<CInt(8, 3), CInt(8, 80), CInt(8, 150)>>)),
          Global("Y0", TRUE, FALSE, CArray("int", <<CInt(8, 100), CInt(8, 200)>>))>>,
        IF tainted THEN {"f.x"} ELSE {})

\* g(v) { switch (v) { case 1: case 2: S1 = v; case 5: S2 = v; default:
\* SD = v } }, v a taint source; pre: v is used before the switch;
\* defaultFirst: the default block is laid out before the case blocks
SwitchModule(pre, defaultFirst) ==
    LET v   == Arg("v", 8, "g.v")
        use == IF pre THEN <<BinOp(Tmp("s", 8), "add", v, ConstInt(8, 0))>> ELSE <<>>
        D   == Block("D", <<"entry">>, <<Store("SD", v, Ptr("pSD", 8)), Br("J")>>)
        C1  == Block("C1", <<"entry", "entry">>,
                     <<Store("S1", v, Ptr("pS1", 8)), Br("J")>>)
        C2  == Block("C2", <<"entry">>, <<Store("S2", v, Ptr("pS2", 8)), Br("J")>>)
    IN Module(
        <<Function("g", "ret.g", <<"g.v">>, FALSE, FALSE,
            <<Block("entry", <<>>,
                use \o <<Switch(v, "D", <<[val |-> 1, succ |-> "C1"],
                                          [val |-> 2, succ |-> "C1"],
                                          [val |-> 5, succ |-> "C2"]>>)>>)>>
            \o (IF defaultFirst THEN <<D, C1, C2>> ELSE <<C1, C2, D>>)
            \o <<Block("J", <<"D", "C1", "C2">>, <<Ret(NoValue)>>)>>)>>,
        <<>>,
        {"g.v"})

\* main calls f(a) and f(b) with a in [0,100] and b in [50,200], a variadic
\* function, an intrinsic, an unresolved callee and inline assembly; f
\* returns its parameter; taintRet: f's return id is a taint source
CallModule(taintRet) ==
    LET a == Ld("a", 8, "A")
        b == Ld("b", 8, "B")
        x == Arg("x", 8, "f.0")
        r == CallV("r", 8, "ret.f", <<"f">>, TRUE, FALSE)
    IN Module(
        <<Function("vf", "ret.vf", <<"vf.0">>, TRUE, FALSE, <<>>),
          Function("llvm.x", "ret.llvm.x", <<"llvm.x.0">>, FALSE, TRUE, <<>>),
          Function("main", "ret.main", <<>>, FALSE, FALSE,
            <<Block("b0", <<>>,
                <<Load(a), Load(b),
                  Call(CallV("c1", 0, "", <<"f">>, TRUE, FALSE), <<a>>),
                  Call(r, <<b>>),
                  Call(CallV("c3", 0, "", <<"vf", "llvm.x">>, TRUE, FALSE), <<a>>),
                  Call(CallV("c4", 8, "", <<>>, FALSE, FALSE), <<b>>),
                  Call(CallV("c5", 8, "", <<"f">>, TRUE, TRUE), <<b>>),
                  Store("R", r, Ptr("pR", 8)),
                  Ret(ConstInt(8, 0))>>)>>),
          Function("f", "ret.f", <<"f.0">>, FALSE, FALSE,
            <<Block("entry", <<>>, <<Ret(x)>>)>>)>>,
        <<Global("A", TRUE, FALSE, CArray("int", <<CInt(8, 0), CInt(8, 100)>>)),
          Global("B", TRUE, FALSE, CArray("int", <<CInt(8, 50), CInt(8, 100), CInt(8, 150), CInt(8, 200)>>))>>,
        IF taintRet THEN {"ret.f"} ELSE {})

\* h() { for (i = 0; i < n; i++) L = i + 1; return i; }, and an unreachable
\* block that starts with a phi without incoming edges
LoopModule(n) ==
    LET i  == Tmp("i", 8)
        i1 == Tmp("i1", 8)
        k  == Tmp("k", 8)
    IN Module(
        <<Function("h", "ret.h", <<>>, FALSE, FALSE,
            <<Block("entry", <<>>, <<Br("header")>>),
              Block("header", <<"entry", "body">>,
                <<Phi(i, <<[blk |-> "entry", val |-> ConstInt(8, 0)],
                           [blk |-> "body", val |-> i1]>>),
                  ICmp(Tmp("c", 1), "ult", i, ConstInt(8, n)),
                  CondBr("header", "ult", i, ConstInt(8, n), "body", "exit")>>),
              Block("body", <<"header">>,
                <<BinOp(i1, "add", i, ConstInt(8, 1)),
                  Store("L", i1, Ptr("pL", 8)),
                  Br("header")>>),
              Block("exit", <<"header">>, <<Ret(i)>>),
              Block("dead", <<>>, <<Phi(k, <<>>), Ret(k)>>)>>)>>,
        <<>>,
        {})

\* casts, select, an instruction without a visitor, a branch on a
\* non-comparison, aggregate initializers, a narrow store into a wider id
\* and a wide store into a narrower one; w8 is an 8-bit load whose id has a
\* 4-bit entry
MiscModule(op) ==
    LET p == Ld("p", 8, "S.0")
        q == Ld("q", 4, "S.1")
        w8 == Ld("w8", 8, "S.1")
        n == Ld("n", 8, "")
        z == Tmp("z", 8)
        e == Tmp("e", 8)
    IN Module(
        <<Function("m", "ret.m", <<>>, FALSE, FALSE,
            <<Block("b0", <<>>,
                <<Load(p), Load(q), Load(n), Load(w8),
                  Cast(z, "zext", q),
                  Cast(e, "sext", q),
                  Cast(Tmp("t", 4), "trunc", p),
                  Cast(Tmp("pi", 8), "ptrtoint", Ptr("pp", 8)),
                  Cast(Tmp("bc", 8), "bitcast", p),
                  Select(Tmp("sel", 8), p, z),
                  BinOp(Tmp("o", 8), op, p, z),
                  BinOp(Tmp("o2", 8), op, w8, p),
                  Other(Tmp("ev", 8)),
                  Store("S.0", q, Ptr("pS0", 8)),
                  Store("", p, Ptr("pN", 8)),
                  Store("S.1", Ptr("pq", 8), Ptr("pS1", 8)),
                  Store("S.1", p, Ptr("pS1", 8)),
                  CondBrOther("b1", "b1")>>),
              Block("b1", <<"b0", "b0">>,
                <<ICmp(Tmp("c1", 1), "ult", p, w8),
                  CondBr("b1", "ult", p, w8, "b2", "b2")>>),
              Block("b2", <<"b1", "b1">>,
                <<ICmp(Tmp("c2", 1), "ult", w8, p),
                  CondBr("b2", "ult", w8, p, "b3", "b3")>>),
              Block("b3", <<"b2", "b2">>, <<Ret(e)>>)>>)>>,
        <<Global("gs", TRUE, FALSE,
             CStruct(TRUE, <<Field("int", CInt(8, 7), "S.0"),
                             Field("int", CInt(4, 9), "S.1"),
                             Field("int", COther, "S.2"),
                             Field("int", CInt(8, 1), ""),
                             Field("other", COther, ""),
                             Field("struct",
                                   CStruct(TRUE, <<Field("int", CInt(8, 20), "S.0")>>),
                                   "")>>)),
          Global("ga", TRUE, FALSE,
             CArray("struct", <<CStruct(FALSE, <<Field("int", CInt(8, 99), "S.0")>>)>>)),
          Global("gp", TRUE, FALSE, CArray("other", <<COther>>)),
          Global(".str", TRUE, TRUE, CArray("int", <<CInt(8, 65)>>)),
          Global("ext", FALSE, FALSE, COther)>>,
        {})

\* k() { *p = a; l = *p; OUT = l; return l; } with a loaded from A0;
\* storeId and loadId are the ids of the store and of the load through p
\* ("" when they have none)
StoreLoadModule(storeId, loadId) ==
    LET a == Ld("a", 8, "A0")
        l == Ld("l", 8, loadId)
        p == Ptr("p", 8)
    IN Module(
        <<Function("k", "ret.k", <<>>, FALSE, FALSE,
            <<Block("b0", <<>>,
                <<Load(a),
                  Store(storeId, a, p),
                  LoadFrom(l, p),
                  Store("OUT", l, Ptr("pOut", 8)),
                  Ret(l)>>)>>)>>,
        <<Global("A0", TRUE, FALSE, CArray("int", <<CInt(8, 5), CInt(8, 9)>>))>>,
        {})

\* a cast the pass has no rule for (fptoui)
BadCastModule ==
    Module(
        <<Function("c", "ret.c", <<>>, FALSE, FALSE,
            <<Block("b0", <<>>,
                <<Cast(Tmp("u", 8), "fptoui", NoValue), Ret(NoValue)>>)>>)>>,
        <<>>, {})

\* a block reached from an invoke
InvokeModule ==
    Module(
        <<Function("i", "ret.i", <<>>, FALSE, FALSE,
            <<Block("b0", <<>>, <<[NoInst EXCEPT !.op = "invoke", !.succs = <<"b1", "b1">>]>>),
              Block("b1", <<"b0", "b0">>, <<Ret(NoValue)>>)>>)>>,
        <<>>, {})

Predicates == {"eq", "ne", "ult", "ule", "ugt", "uge", "slt", "sle", "sgt", "sge"}

Programs ==
    {CounterModule(w) : w \in {2, 8}}
    \cup {BranchModule(p, 10, pre, rc, t) :
             p \in Predicates, pre \in BOOLEAN, rc \in BOOLEAN, t \in BOOLEAN}
    \cup {SwitchModule(pre, df) : pre \in BOOLEAN, df \in BOOLEAN}
    \cup {CallModule(t) : t \in BOOLEAN}
    \cup {LoopModule(n) : n \in {10}}
    \cup {MiscModule(op) : op \in BinaryOpcodes}
    \cup {StoreLoadModule(st, ld) : st \in {"", "M"}, ld \in {"", "M"}}
    \cup {BadCastModule, InvokeModule}

\* ------------------------------------------------------------------------
\* Specification
\* ------------------------------------------------------------------------

Init ==
    /\ prog \in Programs
    /\ maxIter \in 0..MaxIterCap
    /\ IntRanges = EmptyMap
    /\ Changes = {}
    /\ FuncVRMs = EmptyMap
    /\ BackEdges = {}
    /\ itr = 0
    /\ changed = TRUE
    /\ ret = FALSE
    /\ pc = "init"
    /\ fi = 0
    /\ bi = 0
    /\ ii = 0
    /\ hist = NoHist

Next ==
    \/ DoInitialization
    \/ BeginRound
    \/ ExitLoop
    \/ EndRound
    \/ SkipFunction
    \/ EnterFunction
    \/ LeaveFunction
    \/ PropagateBlock
    \/ AbortBlock
    \/ VisitInst
    \/ AbortInst

Spec == Init /\ [][Next]_vars

\* the driver is one sequential loop: whenever it can take a step it does
FairSpec == Spec /\ WF_vars(Next)

\* ------------------------------------------------------------------------
\* Properties
\* ------------------------------------------------------------------------

\* the ids whose entry is the full range of its width
FullIds == {id \in DOMAIN IntRanges : isFullSet(IntRanges[id])}

\* C1 as stated: the driver executes at most MaxIterations + 1 rounds
\* before it returns.
RoundsWithinCap == itr <= maxIter + 1

\* C1, amended: the driver executes at most MaxIterations + 1 + W rounds, W
\* the number of symbolic ids whose table entry is the full range (every
\* round after the cap that reports a change leaves at least one more id at
\* the full range for the next round).
RoundsWithinCapAndWidened == itr <= maxIter + 1 + Cardinality(FullIds)

\* the driver has returned after more than MaxIterations + 1 rounds
ReturnedAfterCapPlusOne == pc = "done" /\ itr > maxIter + 1 /\ ret

\* C2: for any finite program the driver loop of doModulePass eventually
\* exits (or the pass reaches llvm_unreachable on an operation it has no
\* rule for): there is no infinite sequence of rounds that each report a
\* change.
DriverTerminates == <>(pc \in {"done", "abort", "undefined"})

\* the loop has exited after the iteration cap was reached
ExitedAfterCap == pc = "done" /\ itr > maxIter /\ maxIter > 0 /\ ret

\* table T holds everything table S holds, at the same widths
TableGrew(S, T) ==
    \A id \in DOMAIN S :
        /\ id \in DOMAIN T
        /\ T[id].w = S[id].w
        /\ Vals(S[id]) \subseteq Vals(T[id])

\* C3: the GlobalRangeTable only grows, over every unionRange(sID, R) call
\* and over every step of the pass (seeding, instruction, widening): an id
\* once present is never removed, the width of its entry never changes, and
\* the entry denotes a superset of what it denoted before.
TableOnlyGrows ==
    /\ [](\A i \in DOMAIN hist.calls :
              TableGrew(hist.calls[i].before, hist.calls[i].after))
    /\ [][TableGrew(IntRanges, IntRanges')]_vars

\* an entry that was present has strictly grown in a unionRange call
EntryHasGrown ==
    \E i \in DOMAIN hist.calls :
        /\ Has(hist.calls[i].before, hist.calls[i].sID)
        /\ Vals(hist.calls[i].before[hist.calls[i].sID])
               # Vals(hist.calls[i].after[hist.calls[i].sID])

\* C4: at the start of every round whose number exceeds MaxIterations, and
\* before any function is swept, every id of the ChangeSet left by the
\* previous round has its entry replaced by the full range of the entry's
\* width and no other entry is modified; at the start of a round numbered
\* <= MaxIterations no entry is modified.
WideningAtRoundStart ==
    [][(pc = "loop" /\ pc' = "module") =>
         /\ fi' = 1
         /\ DOMAIN IntRanges' = DOMAIN IntRanges
         /\ itr' > maxIter => Changes \subseteq DOMAIN IntRanges
         /\ \A id \in DOMAIN IntRanges :
                IntRanges'[id] = IF itr' > maxIter /\ id \in Changes
                                 THEN FullSet(IntRanges[id].w)
                                 ELSE IntRanges[id]]_vars

\* a round after the cap has just widened some ids and left others narrow
SomeWidenedSomeNot ==
    /\ hist.kind = "begin"
    /\ itr > maxIter
    /\ hist.widened # {}
    /\ \A id \in hist.widened : isFullSet(IntRanges[id])
    /\ \E id \in DOMAIN IntRanges \ hist.widened : ~isFullSet(IntRanges[id])

\* the edges of the last block merge that a conditional branch on an
\* integer comparison refined, and the edges into the default destination
\* that a switch refined
EdgeTerminator(i) == Terminator(BlockNamed(CurFunc, hist.edges[i].pred))

BranchEdges ==
    {i \in DOMAIN hist.edges :
        hist.edges[i].refined /\ EdgeTerminator(i).op = "br"}

DefaultEdges ==
    {i \in DOMAIN hist.edges :
        /\ hist.edges[i].refined
        /\ EdgeTerminator(i).op = "switch"
        /\ EdgeTerminator(i).succs[1] = hist.bb}

\* the predicate that holds on edge i: the comparison's on the true edge,
\* its inverse on the false edge
EdgePredicate(i) ==
    IF EdgeTerminator(i).succs[1] = hist.bb
    THEN EdgeTerminator(i).code
    ELSE InversePredicate(EdgeTerminator(i).code)

\* C5: the fact for LHS that a conditional branch on LHS <pred> RHS
\* contributes to a successor is LHS's range in the branching block
\* intersected with the values that satisfy <pred> (true target) or its
\* inverse (false target) against RHS's range, for both successors and also
\* when LHS already has an entry in the block's map.
BranchRefinesLHS ==
    \A i \in BranchEdges :
        /\ Has(hist.edges[i].vrm, EdgeTerminator(i).x)
        /\ Vals(hist.edges[i].vrm[EdgeTerminator(i).x])
             = Vals(intersectWith(hist.edges[i].l,
                                  makeICmpRegion(EdgePredicate(i), hist.edges[i].r)))

\* C6: the fact recorded for a non-constant RHS on a successor edge is a
\* subset of RHS's own range in the branching block and contains every RHS
\* value for which the comparison (true edge) or its inverse (false edge)
\* holds against some value of LHS's range.
BranchRefinesRHS ==
    \A i \in BranchEdges :
        EdgeTerminator(i).y.k # "const" =>
            /\ Has(hist.edges[i].vrm, EdgeTerminator(i).y)
            /\ Vals(hist.edges[i].vrm[EdgeTerminator(i).y]) \subseteq Vals(hist.edges[i].r)
            /\ \A y \in Vals(hist.edges[i].r) :
                   (\E x \in Vals(hist.edges[i].l) :
                        CmpHolds(EdgePredicate(i), hist.edges[i].r.w, x, y))
                   => y \in Vals(hist.edges[i].vrm[EdgeTerminator(i).y])

\* the explicit case values of a switch
CaseValues(SI) == {SI.cases[c].val : c \in DOMAIN SI.cases}

\* C7: the range of the condition v that a switch contributes to its
\* default successor is v's incoming range without the case values: it
\* contains no case value and every value of the incoming range that is not
\* a case value.
DefaultExcludesExactlyCases ==
    \A i \in DefaultEdges :
        /\ Has(hist.edges[i].vrm, EdgeTerminator(i).x)
        /\ Vals(hist.edges[i].vrm[EdgeTerminator(i).x])
             = Vals(hist.edges[i].l) \ CaseValues(EdgeTerminator(i))

\* the queried value resolves to a taint source: an argument or load whose
\* id is one, or the result of a call with a callee whose return id is one
ResolvesToTaint(V) ==
    IF V.k = "call"
    THEN /\ V.resolved
         /\ ~V.asm
         /\ \E c \in DOMAIN V.callees :
                /\ FuncNamed(V.callees[c]).retId # ""
                /\ isTaintSource(FuncNamed(V.callees[c]).retId)
    ELSE V.k \in {"arg", "load"} /\ V.sid # "" /\ isTaintSource(V.sid)

\* C8 as stated: every getRange query for a value that resolves to a taint
\* source returns the full range of the value's width, whatever the
\* GlobalRangeTable or the block's map holds for it.
TaintAlwaysFull ==
    \A i \in DOMAIN hist.queries :
        ResolvesToTaint(hist.queries[i].V)
            => hist.queries[i].cr = FullSet(hist.queries[i].V.w)

\* C8, amended: a getRange query for a value that resolves to a taint
\* source and has no entry in the block's map returns the full range of the
\* value's width, whatever the GlobalRangeTable holds for it (an entry of
\* the block's map, such as a branch refinement, is returned as it is).
TaintFullUnlessLocal ==
    \A i \in DOMAIN hist.queries :
        (ResolvesToTaint(hist.queries[i].V) /\ hist.queries[i].how # "local")
            => hist.queries[i].cr = FullSet(hist.queries[i].V.w)

\* a query for a tainted argument was answered while the table holds a
\* narrower range for its id
TaintedQueriedOverNarrowEntry ==
    \E i \in DOMAIN hist.queries :
        /\ ResolvesToTaint(hist.queries[i].V)
        /\ hist.queries[i].how = "global"
        /\ hist.queries[i].V.k = "arg"
        /\ Has(IntRanges, hist.queries[i].V.sid)
        /\ ~isFullSet(IntRanges[hist.queries[i].V.sid])

\* the table entry of the parameter id of fact a contains the argument's
\* range
ParameterCovers(a) ==
    ~isEmptySet(a.R) =>
        /\ Has(IntRanges, a.id)
        /\ Vals(a.R) \subseteq Vals(IntRanges[a.id])

\* C9 as stated: after the sweep of a call site with a resolved callee F,
\* the entry of F's parameter-j id contains the range of the integer
\* argument j at the call, for every call site of the round.
ParametersCoverArguments == \A a \in hist.args : ParameterCovers(a)

\* C9, amended: the same for every resolved callee that is neither variadic
\* nor named with a '.' (such callees are skipped), the argument having the
\* width of the entry.
ParametersCoverArgumentsOfPlainCallees ==
    \A a \in hist.args :
        (~a.skipped /\ (Has(IntRanges, a.id) => IntRanges[a.id].w = a.R.w))
            => ParameterCovers(a)

\* a round is through in which two call sites passed [0,100] and [50,200]
\* to the same parameter, whose entry now contains [0,200]
TwoCallSitesUnited ==
    /\ hist.kind = "end"
    /\ \E a, b \in hist.args :
           /\ a.id = b.id /\ ~a.skipped
           /\ Vals(a.R) = 0..100
           /\ Vals(b.R) = 50..200
           /\ 0..200 \subseteq Vals(IntRanges[a.id])

\* C10: unionRange(sID, R) with a non-empty R returns true exactly when the
\* table differs after the call (sID was absent and is inserted with R, or
\* was present and its entry strictly grew); sID is added to the ChangeSet
\* exactly when the call returns true, and a call that returns false leaves
\* table and ChangeSet unchanged.
UnionReportsChange ==
    \A i \in DOMAIN hist.calls :
        ~isEmptySet(hist.calls[i].R) =>
            /\ hist.calls[i].res <=> (hist.calls[i].after # hist.calls[i].before)
            /\ hist.calls[i].res =>
                   IF Has(hist.calls[i].before, hist.calls[i].sID)
                   THEN /\ Vals(hist.calls[i].before[hist.calls[i].sID])
                              \subseteq Vals(hist.calls[i].after[hist.calls[i].sID])
                        /\ Vals(hist.calls[i].before[hist.calls[i].sID])
                              # Vals(hist.calls[i].after[hist.calls[i].sID])
                   ELSE /\ Has(hist.calls[i].after, hist.calls[i].sID)
                        /\ hist.calls[i].after[hist.calls[i].sID] = hist.calls[i].R
            /\ hist.calls[i].chAfter =
                   IF hist.calls[i].res
                   THEN hist.calls[i].chBefore \cup {hist.calls[i].sID}
                   ELSE hist.calls[i].chBefore

\* one instruction made a unionRange call that returned false and one that
\* inserted a new id
UnchangedAndInserted ==
    \E i, j \in DOMAIN hist.calls :
        /\ ~isEmptySet(hist.calls[i].R)
        /\ ~hist.calls[i].res
        /\ hist.calls[j].res
        /\ ~Has(hist.calls[j].before, hist.calls[j].sID)

\* C11: unionRange(sID, R) and unionRange(BB, V, R) called with an empty R
\* return false and leave the GlobalRangeTable, the ChangeSet and the block
\* maps as they are (no entry is created for an absent key), and no entry of
\* the GlobalRangeTable is ever the empty set.
EmptyRangeIsNoOp ==
    /\ \A i \in DOMAIN hist.calls :
           isEmptySet(hist.calls[i].R) =>
               /\ ~hist.calls[i].res
               /\ hist.calls[i].after = hist.calls[i].before
               /\ hist.calls[i].chAfter = hist.calls[i].chBefore
               /\ hist.calls[i].vrmSame
    /\ \A i \in DOMAIN hist.locals :
           isEmptySet(hist.locals[i].R) =>
               /\ ~hist.locals[i].res
               /\ hist.locals[i].after = hist.locals[i].before
               /\ hist.locals[i].tableSame
    /\ \A id \in DOMAIN IntRanges : ~isEmptySet(IntRanges[id])

\* one instruction has called both with an empty range for an absent key
EmptyRangeForAbsentKeys ==
    /\ \E i \in DOMAIN hist.calls :
           /\ isEmptySet(hist.calls[i].R)
           /\ ~Has(hist.calls[i].after, hist.calls[i].sID)
    /\ \E i \in DOMAIN hist.locals :
           /\ isEmptySet(hist.locals[i].R)
           /\ ~Has(hist.locals[i].after[hist.locals[i].BB], hist.locals[i].V)

\* the smaller of two bit widths
MinWidth(a, b) == IF a < b THEN a ELSE b

\* the values of range R as they read in w bits
ValsAtWidth(R, w) == {v % Pow2(w) : v \in Vals(R)}

\* the unionRange(sID, R) calls that met an entry, with a non-empty R
UnionsIntoEntry ==
    {i \in DOMAIN hist.calls :
        Has(hist.calls[i].before, hist.calls[i].sID) /\ ~isEmptySet(hist.calls[i].R)}

\* the position in hist.queries of the two getRange calls of the comparison
\* of branch edge i
ComparisonQueries(i) ==
    {j \in 1..(Len(hist.queries) - 1) :
        /\ hist.queries[j].V = EdgeTerminator(i).x
        /\ hist.queries[j + 1].V = EdgeTerminator(i).y
        /\ hist.queries[j].BB = EdgeTerminator(i).icmpParent
        /\ hist.queries[j + 1].BB = EdgeTerminator(i).icmpParent}

\* the range a binary operator was given as its result
BinaryOpResult == hist.locals[Len(hist.locals)].R

BinaryOpVisited == hist.kind = "inst" /\ hist.inst.op = "binop"

\* C12 as stated: where two ranges of different widths are combined, the
\* result (the compared ranges, for a branch) has the narrower of the two
\* widths, whichever operand comes first.
NarrowerWidthWins ==
    /\ \A i \in UnionsIntoEntry :
           hist.calls[i].after[hist.calls[i].sID].w
             = MinWidth(hist.calls[i].before[hist.calls[i].sID].w, hist.calls[i].R.w)
    /\ BinaryOpVisited =>
           BinaryOpResult.w = MinWidth(hist.queries[1].cr.w, hist.queries[2].cr.w)
    /\ \A i \in BranchEdges : \A j \in ComparisonQueries(i) :
           /\ hist.edges[i].l.w
                = MinWidth(hist.queries[j].cr.w, hist.queries[j + 1].cr.w)
           /\ hist.edges[i].r.w = hist.edges[i].l.w

\* C12 (amended): where two ranges of different widths are combined, the
\* second operand is the one converted (zero-extended or truncated) to the
\* width of the first, which stays as it is: a table entry keeps its width
\* and holds the new values as they read in that width.  getRange answers
\* in the width of the value's type, so the ranges of a binary operator's
\* operands and of a comparison's operands have one width and are combined
\* unconverted.
SecondOperandConverted ==
    /\ \A i \in UnionsIntoEntry :
           /\ hist.calls[i].after[hist.calls[i].sID].w
                = hist.calls[i].before[hist.calls[i].sID].w
           /\ ValsAtWidth(hist.calls[i].R, hist.calls[i].before[hist.calls[i].sID].w)
                \subseteq Vals(hist.calls[i].after[hist.calls[i].sID])
    /\ \A j \in DOMAIN hist.queries : hist.queries[j].cr.w = hist.queries[j].V.w
    /\ BinaryOpVisited =>
           /\ hist.queries[1].cr.w = hist.queries[2].cr.w
           /\ BinaryOpResult.w = hist.queries[1].cr.w
    /\ \A i \in BranchEdges :
           /\ ComparisonQueries(i) # {}
           /\ \A j \in ComparisonQueries(i) :
                  /\ hist.queries[j].cr.w = hist.queries[j + 1].cr.w
                  /\ hist.edges[i].l = hist.queries[j].cr
                  /\ hist.edges[i].r = hist.queries[j + 1].cr

\* a table entry has been united with a non-empty range narrower than itself
WiderEntryNarrowerRange ==
    \E i \in UnionsIntoEntry :
        hist.calls[i].before[hist.calls[i].sID].w > hist.calls[i].R.w

\* the functions with a body, and the one doModulePass swept last: after
\* the loop FuncVRMs and BackEdges are the ones of that function
Defined == {f \in DOMAIN prog.funcs : prog.funcs[f].blocks # <<>>}

LastSwept == prog.funcs[CHOOSE f \in Defined : \A g \in Defined : g <= f]

\* the range value V has in block BB's map (a constant is its own range)
RangeIn(BB, V) ==
    IF V.k = "const" THEN Single(V.w, V.v)
    ELSE IF Has(FuncVRMs[BB], V) THEN FuncVRMs[BB][V]
    ELSE EmptySet(V.w)

\* C13: when the driver has reached its fixpoint, the range of a phi
\* contains the range that the value coming in over a back edge has at the
\* end of the edge's source block.
LoopCarriedValuesReachPhi ==
    (pc = "done" /\ Defined # {}) =>
        \A b \in DOMAIN LastSwept.blocks : \A k \in DOMAIN LastSwept.blocks[b].insts :
            LastSwept.blocks[b].insts[k].op = "phi" =>
                \A n \in DOMAIN LastSwept.blocks[b].insts[k].inc :
                    <<LastSwept.blocks[b].insts[k].inc[n].blk, LastSwept.blocks[b].name>>
                        \in BackEdges
                    => Vals(RangeIn(LastSwept.blocks[b].insts[k].inc[n].blk,
                                    LastSwept.blocks[b].insts[k].inc[n].val))
                         \subseteq Vals(RangeIn(LastSwept.blocks[b].name,
                                                LastSwept.blocks[b].insts[k].res))

PhiVisited == hist.kind = "inst" /\ hist.inst.op = "phi"

\* the incoming (block, value) pairs of the phi just visited whose edge is
\* not in the back-edge set, in operand order
ForwardIncoming ==
    SelectSeq(hist.inst.inc, LAMBDA e : <<e.blk, hist.bb>> \notin BackEdges)

\* the range the phi just visited was given
PhiResult == hist.locals[Len(hist.locals)].R

\* the union of the ranges answered by queries j.., starting from C
RECURSIVE QueriesUnion(_, _)
QueriesUnion(j, C) ==
    IF j > Len(hist.queries) THEN C
    ELSE QueriesUnion(j + 1, unionWith(C, zextOrTrunc(hist.queries[j].cr, C.w)))

\* C14: the range of a phi is the union of getRange(Pred, incoming value)
\* over exactly the incoming edges that are not back edges (a back edge's
\* value is not even looked up); it is the empty set of the phi's width when
\* there is no such edge.
PhiUnitesForwardEdges ==
    PhiVisited =>
        /\ Len(hist.queries) = Len(ForwardIncoming)
        /\ \A j \in DOMAIN hist.queries :
               /\ hist.queries[j].BB = ForwardIncoming[j].blk
               /\ hist.queries[j].V = ForwardIncoming[j].val
               /\ Vals(hist.queries[j].cr) \subseteq Vals(PhiResult)
        /\ PhiResult = QueriesUnion(1, EmptySet(hist.inst.res.w))
        /\ ForwardIncoming = <<>> => PhiResult = EmptySet(hist.inst.res.w)

\* a phi with a forward and a back edge has been given the forward value's
\* non-empty range
PhiSkippedBackEdge ==
    /\ PhiVisited
    /\ Len(ForwardIncoming) = 1
    /\ Len(hist.inst.inc) = 2
    /\ ~isEmptySet(PhiResult)

\* C15: when doModulePass returns, one more sweep of any function from the
\* final table reports no change, leaves every table entry as it is and
\* builds the block maps the final round built (the final round did not
\* change the table, so each function's sweep of that round started from the
\* final table).
FixpointOnReturn ==
    pc = "done" => hist.moved = {} /\ hist.start = IntRanges

\* the driver has returned after a round that changed the table, with
\* block maps that hold ranges
ReturnedAtNontrivialFixpoint ==
    /\ pc = "done"
    /\ ret
    /\ \E b \in DOMAIN FuncVRMs : FuncVRMs[b] # EmptyMap
    /\ \E id \in DOMAIN IntRanges : ~isFullSet(IntRanges[id])

\* the position in its block of the instruction just visited
VisitedAt == {k \in DOMAIN BlockNamed(CurFunc, hist.bb).insts :
                 BlockNamed(CurFunc, hist.bb).insts[k] = hist.inst}

\* the stores of integers with a non-empty range through the pointer of
\* the load just visited, earlier in the load's block
StoresBefore ==
    {j \in DOMAIN BlockNamed(CurFunc, hist.bb).insts :
        /\ \E k \in VisitedAt : j < k
        /\ BlockNamed(CurFunc, hist.bb).insts[j].op = "store"
        /\ BlockNamed(CurFunc, hist.bb).insts[j].y = hist.inst.y
        /\ isIntegerTy(BlockNamed(CurFunc, hist.bb).insts[j].x)
        /\ ~isEmptySet(RangeIn(hist.bb, BlockNamed(CurFunc, hist.bb).insts[j].x))}

\* C16: a load through pointer p resolves to a range that contains the range
\* of every integer stored through p earlier in the same block, whether or
\* not the store and the load have an id.
StoreReachesLoad ==
    (hist.kind = "inst" /\ hist.inst.op = "load" /\ hist.inst.y.k = "ptr") =>
        \A j \in StoresBefore :
            Vals(RangeIn(hist.bb, BlockNamed(CurFunc, hist.bb).insts[j].x))
              \subseteq Vals(hist.queries[1].cr)

\* the kinds of integer instructions updateRangeFor has a visitor for
VisitedKinds == {"binop", "cast", "select", "phi", "load", "call"}

IntegerInstVisited == hist.kind = "inst" /\ hist.inst.res.w > 0

\* C17 as stated: no integer instruction of a kind without a visitor and no
\* predecessor terminator other than a branch or a switch is processed.
NoSilentDefault ==
    /\ IntegerInstVisited => hist.inst.op \in VisitedKinds
    /\ \A i \in DOMAIN hist.edges : EdgeTerminator(i).op \in {"br", "switch"}

\* C17 (amended): an integer instruction of a kind without a visitor is
\* given the full range of its width in its block's map, without a word,
\* and the sweep goes on.  llvm_unreachable is reached only by a binary
\* operator or a cast whose opcode has no case and by a predecessor over a
\* non-back edge whose terminator is neither a branch nor a switch: none
\* of these is processed, the pass aborts (or, built without assertions,
\* leaves its defined behaviour).
OnlyUnknownOpcodesAbort ==
    /\ (IntegerInstVisited /\ hist.inst.op \notin VisitedKinds) =>
           /\ hist.locals[Len(hist.locals)].V = hist.inst.res
           /\ hist.locals[Len(hist.locals)].R = FullSet(hist.inst.res.w)
           /\ hist.calls = <<>>
           /\ pc \in {"inst", "block"}
    /\ (IntegerInstVisited /\ hist.inst.op = "binop") => hist.inst.code \in BinaryOpcodes
    /\ (IntegerInstVisited /\ hist.inst.op = "cast") => hist.inst.code \in CastOpcodes
    /\ \A i \in DOMAIN hist.edges : EdgeTerminator(i).op \in {"br", "switch"}
    /\ pc \in {"abort", "undefined"} =>
           /\ hist.kind = "abort"
           /\ \/ /\ hist.inst.res.w > 0
                 /\ \/ hist.inst.op = "binop" /\ hist.inst.code \notin BinaryOpcodes
                    \/ hist.inst.op = "cast" /\ hist.inst.code \notin CastOpcodes
              \/ /\ hist.inst = NoInst
                 /\ \E i \in DOMAIN BlockNamed(CurFunc, hist.bb).preds :
                        /\ <<BlockNamed(CurFunc, hist.bb).preds[i], hist.bb>> \notin BackEdges
                        /\ Terminator(BlockNamed(CurFunc,
                                                 BlockNamed(CurFunc, hist.bb).preds[i])).op
                             \notin {"br", "switch"}

\* a comparison has been given the full range and the sweep goes on
ComparisonGotFullRange ==
    /\ IntegerInstVisited
    /\ hist.inst.op = "icmp"
    /\ isFullSet(hist.locals[Len(hist.locals)].R)
    /\ pc = "inst"

\* C18: from the start of a round's sweeps to the loop test that follows
\* them, the round's changed flag is true if and only if the ChangeSet is
\* not empty, if and only if the table differs from what it was when the
\* sweeps started (after the widening); what happens to the block maps does
\* not count.
ChangedMeansTableChanged ==
    (itr >= 1 /\ pc \in {"module", "block", "inst", "loop", "done"}) =>
        /\ changed <=> Changes # {}
        /\ changed <=> IntRanges # hist.start

\* a round has ended without a change although its sweeps filled block maps
RoundBuiltMapsOnly ==
    /\ hist.kind = "end"
    /\ ~changed
    /\ \E b \in DOMAIN FuncVRMs : FuncVRMs[b] # EmptyMap

\* C19: an id the widening has set to the full range keeps the full range
\* in every later state and is not in the ChangeSet again, so the rounds
\* begun after the cap was exceeded are at most the widened ids plus one,
\* hence at most the ids of the table plus one.
WidenedStaysFull ==
    pc \notin {"abort", "undefined"} =>
        /\ \A id \in hist.ever :
               /\ Has(IntRanges, id)
               /\ isFullSet(IntRanges[id])
               /\ id \notin Changes
        /\ itr > maxIter =>
               /\ itr - maxIter <= Cardinality(hist.ever) + 1
               /\ itr - maxIter <= Cardinality(DOMAIN IntRanges) + 1

\* a widened id has been the target of a later unionRange with a non-empty
\* range, in a round after the one that followed its widening
WidenedUnitedAgain ==
    /\ itr > maxIter + 1
    /\ hist.ever # {}
    /\ \E i \in DOMAIN hist.calls :
           /\ hist.calls[i].sID \in hist.ever
           /\ ~isEmptySet(hist.calls[i].R)
           /\ ~hist.calls[i].res

====
